---- MODULE Spec2Model ----
(***************************************************************************)
(* Funding-tracker ingestion engine: contract registry, history backfill   *)
(* (sync_contract), forward update (update_contract), live collection and  *)
(* the per-exchange orchestrator, over a relational store with             *)
(* insert-ignore / upsert repositories.                                    *)
(*                                                                         *)
(* Times are whole seconds since the model's epoch.  The adapters scale    *)
(* both window bounds and the venue's record times by 1000 (milliseconds); *)
(* the scaling is applied on both sides of every comparison.               *)
(***************************************************************************)
EXTENDS Integers, Sequences, FiniteSets, TLC

(***************************************************************************)
(* Bounds of the model                                                     *)
(***************************************************************************)
\* number of settlement instants of the venue inside the modelled period
MaxMark == 3
\* number of instants, from the first one, at which live rates are sampled
MaxLiveInstant == 1
\* last second of the clock in the model of the materialized-view refresher
MaxMvTime == 22
\* number of registered exchanges
MaxExchanges == 4
\* number of items of an exchanges string
MaxSpecItems == 2
\* largest instance_id / total_instances given on the command line or in
\* the environment
MaxInstances == 3
\* largest number of exchanges handed to bootstrap directly
MaxFanout == 61
\* longest list of contracts handed to fetch_live with an arbitrary venue
MaxLiveList == 2
\* length of the long list of contracts handed to fetch_live_parallel, whose
\* venue answers every request
MaxParallel == 11

\* hours the Paradex clock runs over
MaxPdxHour == 2
\* raw records in one Paradex response
MaxRaw == 2
\* the Paradex job model: hours the clock passes through, and samples kept
\* per bucket
MaxJobHour == 3
MaxSamples == 1
\* settled points the venue may hold when a backfill starts
MaxBackfill == 4
\* hours between two such points
BackfillSpacing == 60

(***************************************************************************)
(* Program constants                                                       *)
(***************************************************************************)
\* timedelta(hours=1) in seconds
SecondsPerHour == 3600
\* timedelta(seconds=1), the cutoff shift of sync_contract / update_contract
OneSecond == 1
\* bulk_insert(chunk_size=1000)
chunk_size == 1000
\* KucoinExchange._FETCH_STEP
KUCOIN_FETCH_STEP == 100
\* AsterExchange._FETCH_STEP
ASTER_FETCH_STEP == 8000
\* DydxExchange._FETCH_STEP
DYDX_FETCH_STEP == 1000
\* DeriveExchange._FETCH_STEP
DERIVE_FETCH_STEP == 720
LIGHTER_FETCH_STEP == 498
\* MaterializedViewRefresher(debounce_seconds=10)
debounce_seconds == 10
\* bootstrap(concurrency_limit=10)
DefaultConcurrencyLimit == 10
\* before_timestamp / after_timestamp / oldest / newest being None
NoTime == 0 - 1

(***************************************************************************)
(* Input domains                                                           *)
(***************************************************************************)
Assets == {"BTC", "ETH"}
Quotes == {"USDT"}
Intervals == {4, 8}
\* funding rates (in units of 1e-4): what a live sample may carry, and what
\* the venue settles at
Rates == {1, 2}
SettledRates == {1}
Adapters == {"kucoin", "aster"}
\* capacities the operator may give the per-exchange semaphore
ConcurrencyLimits == {1, DefaultConcurrencyLimit}

\* Hours of the venue's settlement instants: the first one, then, after a
\* pause longer than KUCOIN_FETCH_STEP hours, one every eight hours.
MarkHour(k) == IF k = 1 THEN 8 ELSE 120 + 8 * (k - 2)
Marks == {MarkHour(k) * SecondsPerHour : k \in 1..MaxMark}
\* the instants the clock visits: one second before, at, and after each mark
Instants == UNION {{m - 1, m, m + 1} : m \in Marks}
FirstInstant == CHOOSE t \in Instants : \A u \in Instants : t <= u
LastInstant == CHOOSE t \in Instants : \A u \in Instants : u <= t

VARIABLES
    now,                  \* wall clock (datetime.now())
    venue,                \* settled funding points the venue holds
    listing,              \* the venue's current listing of perpetuals
    adapter,              \* which adapter the orchestrator owns
    sections, quotes, assets,   \* name tables
    contracts,            \* contract table (rows)
    hist,                 \* funding_rate_record hypertable (rows)
    live,                 \* unsettled_funding_rate_record hypertable (rows)
    mv_pending, mv_last_signal_time,   \* MaterializedViewRefresher fields
    mv_pc,                \* position of check_and_refresh_if_needed
    mv_ticked,            \* the scheduler has fired this second's check
    mv_log,               \* what the refresher did since the last signal
    upc,                  \* position of ExchangeOrchestrator.update()
    reg,                  \* locals of register_contracts
    tasks,                \* process_contract tasks of the current update()
    lpc, ltask,           \* position and locals of collect_live
    uow,                  \* tasks holding an entered unit of work
    inflight,             \* tasks awaiting an adapter call that goes upstream
    semaphore,            \* free permits of the orchestrator's semaphore
    concurrency_limit,    \* capacity the semaphore was created with
    escaped,              \* jobs whose exception reached the scheduler
    scope,                \* per job: its "async with uow_factory()" scope
    probes,               \* Aster get_contracts: its fundingRate probes
    cfg,                  \* build_runtime_config: its inputs and its outcome
    boot,                 \* bootstrap and the scheduler it builds
    http,                 \* one http_client call with its retries
    hcall,                \* one fetch_history_before / _after call of an adapter
    lcall,                \* one fetch_live call of an adapter
    live_run,             \* what the last update_live() invocation did
    pdx,                  \* the Paradex adapter: its live cache and one call of it
    lighter,              \* the Lighter adapter: its remembered market ids
    xyz                   \* the hyperliquid-xyz adapter: one listed name and its contract

envVars == <<now, venue, listing, adapter>>
dbVars == <<sections, quotes, assets, contracts, hist, live>>
mvVars == <<mv_pending, mv_last_signal_time, mv_pc, mv_ticked, mv_log>>
updVars == <<upc, reg, tasks>>
liveVars == <<lpc, ltask>>
resVars == <<uow, inflight>>
schedVars == <<semaphore, concurrency_limit, escaped, scope, probes>>
\* the variables of the ingestion engine, and those of startup and of the
\* adapters' single calls
coreVars == <<envVars, dbVars, mvVars, updVars, liveVars, resVars, schedVars>>
startVars == <<cfg, boot>>
adapterVars == <<pdx, lighter, xyz>>
callVars == <<http, hcall, lcall, live_run, pdx, lighter, xyz>>
auxVars == <<cfg, boot, http, hcall, lcall, live_run, pdx, lighter, xyz>>
vars == <<now, venue, listing, adapter, sections, quotes, assets, contracts,
          hist, live, mv_pending, mv_last_signal_time, mv_pc, mv_ticked,
          mv_log, upc, reg, tasks,
          lpc, ltask, uow, inflight, semaphore, concurrency_limit, escaped, scope, probes,
          cfg, boot, http, hcall, lcall, live_run, pdx, lighter, xyz>>

(***************************************************************************)
(* Helpers on sets and sequences                                           *)
(***************************************************************************)
Min(a, b) == IF a <= b THEN a ELSE b

RECURSIVE ChronologicalOrder(_)
\* the funding points of S (distinct timestamps) as a list, oldest first
ChronologicalOrder(S) ==
    IF S = {} THEN <<>>
    ELSE LET x == CHOOSE y \in S : \A z \in S : y.timestamp <= z.timestamp
         IN <<x>> \o ChronologicalOrder(S \ {x})

RECURSIVE SetToSeq(_)
SetToSeq(S) ==
    IF S = {} THEN <<>>
    ELSE LET x == CHOOSE y \in S : TRUE IN <<x>> \o SetToSeq(S \ {x})

Range(s) == {s[i] : i \in 1..Len(s)}

(***************************************************************************)
(* Repositories                                                            *)
(***************************************************************************)
\* primary key of a funding point row: (contract_id, timestamp)
PointKey(r) == <<r.contract_id, r.timestamp>>

\* conflict target of the contract upsert: (asset_name, section_name, quote_name)
ContractKey(c) == <<c.asset_name, c.section_name, c.quote_name>>

RECURSIVE InsertOnConflictOverwrite(_, _)
\* mutant: the statement overwrites the stored row of a conflicting key
InsertOnConflictOverwrite(table, chunk) ==
    IF chunk = <<>> THEN table
    ELSE LET r == Head(chunk)
             t == {x \in table : PointKey(x) # PointKey(r)} \cup {r}
         IN InsertOnConflictOverwrite(t, Tail(chunk))

RECURSIVE InsertOnConflictDoNothing(_, _)
\* one INSERT ... ON CONFLICT DO NOTHING statement over the rows of a chunk
InsertOnConflictDoNothing(table, chunk) ==
    IF chunk = <<>> THEN table
    ELSE LET r == Head(chunk)
             t == IF \E x \in table : PointKey(x) = PointKey(r)
                  THEN table
                  ELSE table \cup {r}
         IN InsertOnConflictDoNothing(t, Tail(chunk))

RECURSIVE bulk_insert(_, _, _)
\* bulk_insert(on_conflict="ignore"): one statement per chunk of chunk_size rows
bulk_insert(table, records, i) ==
    IF i >= Len(records) THEN table
    ELSE bulk_insert(
             InsertOnConflictDoNothing(
                 table, SubSeq(records, i + 1, Min(i + chunk_size, Len(records)))),
             records, i + chunk_size)

\* Repository.bulk_insert_ignore on a funding point table
bulk_insert_ignore(table, records) == bulk_insert(table, records, 0)

\* Repository.bulk_insert_ignore on a name table (section, quote, asset)
bulk_insert_ignore_names(table, names) == table \cup names

\* a fresh contract id (uuid4 default of the id column)
NewId(table) == Cardinality(table) + 1

\* Contract(...) as register_contracts builds it: the row that is inserted
\* when no row with the same key exists
Contract(table, asset_name, quote_name, section_name, funding_interval, deprecated) ==
    [id |-> NewId(table), asset_name |-> asset_name, quote_name |-> quote_name,
     section_name |-> section_name, funding_interval |-> funding_interval,
     deprecated |-> deprecated, synced |-> FALSE]

RECURSIVE upsert_many_plain_insert(_, _, _)
\* mutant: a plain INSERT with no conflict target
upsert_many_plain_insert(table, infos, section_name) ==
    IF infos = <<>> THEN table
    ELSE LET c == Head(infos)
         IN upsert_many_plain_insert(
                table \cup {Contract(table, c.asset_name, c.quote, section_name,
                                     c.funding_interval, FALSE)},
                Tail(infos), section_name)

RECURSIVE upsert_many_all_fields(_, _, _)
\* mutant: on conflict every column of the incoming row is written
upsert_many_all_fields(table, infos, section_name) ==
    IF infos = <<>> THEN table
    ELSE LET c == Head(infos)
             k == <<c.asset_name, section_name, c.quote>>
             hit == {x \in table : ContractKey(x) = k}
             t == IF hit = {}
                  THEN table \cup {Contract(table, c.asset_name, c.quote, section_name,
                                            c.funding_interval, FALSE)}
                  ELSE (table \ hit) \cup
                       {[x EXCEPT !.funding_interval = c.funding_interval,
                                  !.deprecated = FALSE, !.synced = FALSE] : x \in hit}
         IN upsert_many_all_fields(t, Tail(infos), section_name)

RECURSIVE upsert_many(_, _, _)
\* ContractRepository.upsert_many: INSERT ... ON CONFLICT (asset_name,
\* section_name, quote_name) DO UPDATE SET funding_interval, deprecated
upsert_many(table, infos, section_name) ==
    IF infos = <<>> THEN table
    ELSE LET c == Head(infos)
             k == <<c.asset_name, section_name, c.quote>>
             hit == {x \in table : ContractKey(x) = k}
             t == IF hit = {}
                  THEN table \cup {Contract(table, c.asset_name, c.quote, section_name,
                                            c.funding_interval, FALSE)}
                  ELSE (table \ hit) \cup
                       {[x EXCEPT !.funding_interval = c.funding_interval,
                                  !.deprecated = FALSE] : x \in hit}
         IN upsert_many(t, Tail(infos), section_name)

\* ContractRepository.get_by_section
get_by_section(table, section_name) == {c \in table : c.section_name = section_name}

\* ContractRepository.get_active_by_section
get_active_by_section(table, section_name) ==
    {c \in table : c.section_name = section_name /\ c.deprecated = FALSE}

\* HistoricalFundingPointRepository.get_oldest_for_contract (timestamp or NoTime)
get_oldest_for_contract(table, contract_id) ==
    LET S == {r.timestamp : r \in {x \in table : x.contract_id = contract_id}}
    IN IF S = {} THEN NoTime ELSE CHOOSE t \in S : \A u \in S : t <= u

\* HistoricalFundingPointRepository.get_newest_for_contract (timestamp or NoTime)
get_newest_for_contract(table, contract_id) ==
    LET S == {r.timestamp : r \in {x \in table : x.contract_id = contract_id}}
    IN IF S = {} THEN NoTime ELSE CHOOSE t \in S : \A u \in S : u <= t

\* HistoricalFundingPoint / LiveFundingPoint rows built from adapter points
FundingRecords(contract_id, points) ==
    [i \in 1..Len(points) |->
        [contract_id |-> contract_id, timestamp |-> points[i].timestamp,
         funding_rate |-> points[i].rate]]

(***************************************************************************)
(* Adapters                                                                *)
(***************************************************************************)
FETCH_STEP(a) ==
    IF a = "kucoin" THEN KUCOIN_FETCH_STEP
    ELSE IF a = "dydx" THEN DYDX_FETCH_STEP
    ELSE IF a = "derive" THEN DERIVE_FETCH_STEP
    ELSE IF a = "lighter" THEN LIGHTER_FETCH_STEP
    ELSE ASTER_FETCH_STEP

\* BaseExchange.fetch_history_before: the window it asks the venue for
fetch_history_before(a, before_timestamp, clock) ==
    LET end == IF before_timestamp # NoTime THEN before_timestamp ELSE clock
        start == end - FETCH_STEP(a) * SecondsPerHour
    IN [start |-> start, end |-> end]

\* BaseExchange.fetch_history_after: the window it asks the venue for
fetch_history_after(after_timestamp, clock) ==
    [start |-> after_timestamp, end |-> clock]

\* _fetch_history: the venue's records inside the window, oldest first
fetch_history(records, window) ==
    ChronologicalOrder({[rate |-> p.rate, timestamp |-> p.timestamp] :
        p \in {q \in records : window.start <= q.timestamp /\ q.timestamp <= window.end}})

\* KucoinExchange.get_contracts: one ContractInfo per open perpetual
KucoinGetContracts(raw) ==
    {[asset_name |-> r.baseCurrency, quote |-> r.quoteCurrency,
      funding_interval |-> (r.fundingRateGranularity \div 1000) \div SecondsPerHour]
        : r \in raw}

\* Python round(): nearest integer of n / d, ties to the even one (n >= 0, d > 0)
Round(n, d) ==
    LET q == n \div d
        r == n % d
    IN IF 2 * r < d THEN q
       ELSE IF 2 * r > d THEN q + 1
       ELSE IF q % 2 = 0 THEN q ELSE q + 1

\* AsterExchange._detect_funding_interval: the detected interval in hours, or
\* 0 for None.  response.raised tells that the fundingRate request raised,
\* response.data is the list of the last funding records otherwise.
DetectFundingInterval(response, premium_item) ==
    IF response.raised THEN 0
    ELSE IF response.data = <<>> THEN 0
    ELSE LET interval_ms == premium_item.nextFundingTime - response.data[1].fundingTime
         IN IF interval_ms <= 0 THEN 0
            ELSE LET rounded == Round(interval_ms, 1000 * SecondsPerHour)
                 IN IF rounded >= 1 THEN rounded ELSE 1

\* AsterExchange.get_contracts: exchangeInfo symbols that are in premiumIndex
\* and whose interval probe yielded a result
AsterGetContracts(symbols, premium_lookup, probe) ==
    LET symbols_to_process == {y \in symbols : <<y.baseAsset, y.quoteAsset>> \in DOMAIN premium_lookup}
    IN {[asset_name |-> y.baseAsset, quote |-> y.quoteAsset,
         funding_interval |->
             DetectFundingInterval(probe[<<y.baseAsset, y.quoteAsset>>],
                                   premium_lookup[<<y.baseAsset, y.quoteAsset>>])]
          : y \in {z \in symbols_to_process :
                     DetectFundingInterval(probe[<<z.baseAsset, z.quoteAsset>>],
                                           premium_lookup[<<z.baseAsset, z.quoteAsset>>]) # 0}}

(***************************************************************************)
(* The venue                                                               *)
(***************************************************************************)
ListingEntries == [asset : Assets, quote : Quotes, interval : Intervals]
\* a venue lists each (asset, quote) at most once
Listings ==
    {L \in SUBSET ListingEntries :
        \A x, y \in L : (x.asset = y.asset /\ x.quote = y.quote) => x = y}
ListedKeys(L) == {<<x.asset, x.quote>> : x \in L}

\* the clock moves to the next instant
Tick ==
    /\ now < LastInstant
    /\ now' = CHOOSE t \in Instants : t > now /\ \A u \in Instants : u > now => t <= u
    /\ UNCHANGED <<venue, listing, adapter>>
    /\ UNCHANGED <<dbVars, mvVars, updVars, liveVars, resVars, schedVars, auxVars>>

\* the venue settles funding at a mark and publishes the point
VenueSettle ==
    /\ now \in Marks
    /\ \A p \in venue : p.timestamp # now
    /\ \E r \in SettledRates : venue' = venue \cup {[timestamp |-> now, rate |-> r]}
    /\ UNCHANGED <<now, listing, adapter>>
    /\ UNCHANGED <<dbVars, mvVars, updVars, liveVars, resVars, schedVars, auxVars>>

\* the venue lists, delists or changes the interval of perpetuals
VenueRelist ==
    /\ \E L \in Listings : L # listing /\ listing' = L
    /\ UNCHANGED <<now, venue, adapter>>
    /\ UNCHANGED <<dbVars, mvVars, updVars, liveVars, resVars, schedVars, auxVars>>

(***************************************************************************)
(* UnitOfWork: the scope of "async with uow_factory() as uow"              *)
(***************************************************************************)
UpdateTask == <<"update", 0>>
LiveTask == <<"live", 0>>
MvTask == <<"mv", 0>>
\* the scheduler's jobs, each of which opens units of work
Jobs == {UpdateTask, LiveTask, MvTask}

\* pc: where the scope is; exc: how the body ended; tx: what became of the
\* transaction; session: the AsyncSession; result: what the statement raises
NoScope == [pc |-> "out", exc |-> "none", tx |-> "none", session |-> "none",
            result |-> "none"]
BodyEndings == {"none", "error", "cancelled"}
AwaitResults == {"ok", "error", "cancelled"}

\* __aenter__: a session is created
UowEnter(j) ==
    /\ scope[j].pc \in {"out", "left"}
    /\ scope[j].session \in {"none", "closed"}
    /\ scope' = [scope EXCEPT ![j] = [NoScope EXCEPT !.pc = "body", !.tx = "open",
                                                      !.session = "open"]]
    /\ uow' = uow \cup {j}
    /\ UNCHANGED <<inflight, semaphore, concurrency_limit, escaped, probes, auxVars>>
    /\ UNCHANGED <<envVars, dbVars, mvVars, updVars, liveVars>>

\* the body of the statement ends: normally, by an exception, or cancelled
UowBodyEnds(j, e) ==
    /\ scope[j].pc = "body"
    /\ scope' = [scope EXCEPT ![j].pc = "exit", ![j].exc = e]
    /\ UNCHANGED <<uow, inflight, semaphore, concurrency_limit, escaped, probes, auxVars>>
    /\ UNCHANGED <<envVars, dbVars, mvVars, updVars, liveVars>>

\* mutant: the session is closed after the commit or rollback, with no
\* "finally"
UowTransactionEndsNoFinally(j, r) ==
    /\ scope[j].pc = "exit"
    /\ scope' = [scope EXCEPT
          ![j].tx = IF r # "ok" THEN "broken"
                    ELSE IF scope[j].exc = "none" THEN "committed" ELSE "rolled_back",
          ![j].result = IF r # "ok" THEN r ELSE scope[j].exc,
          ![j].session = IF r = "ok" THEN "closing" ELSE "open",
          ![j].pc = IF r = "ok" THEN "close" ELSE "left"]
    /\ uow' = IF r = "ok" THEN uow ELSE uow \ {j}
    /\ UNCHANGED <<inflight, semaphore, concurrency_limit, escaped, probes, auxVars>>
    /\ UNCHANGED <<envVars, dbVars, mvVars, updVars, liveVars>>

\* __aexit__: "if exc_val: await self.rollback() else: await self.commit()"
\* returns, raises or is cancelled; "finally: await self._close()" starts
\* asyncio.shield(self._session.close())
UowTransactionEnds(j, r) ==
    /\ scope[j].pc = "exit"
    /\ scope' = [scope EXCEPT
          ![j].tx = IF r # "ok" THEN "broken"
                    ELSE IF scope[j].exc = "none" THEN "committed" ELSE "rolled_back",
          ![j].result = IF r # "ok" THEN r ELSE scope[j].exc,
          ![j].session = "closing",
          ![j].pc = "close"]
    /\ UNCHANGED <<uow, inflight, semaphore, concurrency_limit, escaped, probes, auxVars>>
    /\ UNCHANGED <<envVars, dbVars, mvVars, updVars, liveVars>>

\* the shielded session.close() completes; an __aexit__ still awaiting it
\* returns
UowCloseDone(j) ==
    /\ scope[j].session = "closing"
    /\ scope' = [scope EXCEPT ![j].session = "closed",
                              ![j].pc = IF @ = "close" THEN "left" ELSE @]
    /\ uow' = uow \ {j}
    /\ UNCHANGED <<inflight, semaphore, concurrency_limit, escaped, probes, auxVars>>
    /\ UNCHANGED <<envVars, dbVars, mvVars, updVars, liveVars>>

\* the task is cancelled while __aexit__ awaits the shield: the await raises
\* CancelledError, the shielded close keeps running
UowCancelDuringClose(j) ==
    /\ scope[j].pc = "close"
    /\ scope' = [scope EXCEPT ![j].pc = "left", ![j].result = "cancelled"]
    /\ uow' = uow \ {j}
    /\ UNCHANGED <<inflight, semaphore, concurrency_limit, escaped, probes, auxVars>>
    /\ UNCHANGED <<envVars, dbVars, mvVars, updVars, liveVars>>

(***************************************************************************)
(* MaterializedViewRefresher                                               *)
(***************************************************************************)
\* mv_log.last: time of the latest signal; unserved: no REFRESH has started
\* since that signal; starts: REFRESH executions since that signal that did
\* not fail (counted to 2); result: outcome of the latest REFRESH since then
NoMvLog == [last |-> NoTime, unserved |-> FALSE, starts |-> 0, result |-> ""]

\* signal_contracts_changed(exchange_name)
signal_contracts_changed ==
    /\ mv_last_signal_time' = now
    /\ mv_pending' = TRUE
    /\ mv_log' = [last |-> now, unserved |-> TRUE, starts |-> 0, result |-> ""]
    /\ UNCHANGED <<mv_pc, mv_ticked>>

\* the register_contracts run of some exchange signals the shared refresher
MvSignal ==
    /\ signal_contracts_changed
    /\ UNCHANGED <<envVars, dbVars, updVars, liveVars, resVars, schedVars, auxVars>>

\* one second passes; the scheduler fires the check once a second and skips
\* the run while the previous one is still executing (max_instances = 1)
MvTick ==
    /\ mv_ticked \/ mv_pc = "refreshing"
    /\ now' = Min(now + 1, MaxMvTime)
    /\ mv_ticked' = FALSE
    /\ UNCHANGED <<venue, listing, adapter>>
    /\ UNCHANGED <<mv_pending, mv_last_signal_time, mv_pc, mv_log>>
    /\ UNCHANGED <<dbVars, updVars, liveVars, resVars, schedVars, auxVars>>

\* mutant: the debounce period is not consulted
MvCheckNoDebounce ==
    /\ ~mv_ticked /\ mv_pc = "idle"
    /\ mv_ticked' = TRUE
    /\ IF ~mv_pending \/ mv_last_signal_time = NoTime
       THEN UNCHANGED <<mv_pc, mv_log, uow>>
       ELSE /\ mv_pc' = "refreshing"
            /\ uow' = uow \cup {MvTask}
            /\ mv_log' = [mv_log EXCEPT !.unserved = FALSE,
                                        !.starts = Min(@ + 1, 2)]
    /\ UNCHANGED <<mv_pending, mv_last_signal_time, inflight>>
    /\ UNCHANGED <<envVars, dbVars, updVars, liveVars, schedVars, auxVars>>

\* check_and_refresh_if_needed up to "await self._refresh_materialized_views()",
\* which enters a unit of work and executes the REFRESH
MvCheck ==
    /\ ~mv_ticked /\ mv_pc = "idle"
    /\ mv_ticked' = TRUE
    /\ IF ~mv_pending \/ mv_last_signal_time = NoTime
       THEN UNCHANGED <<mv_pc, mv_log, uow>>
       ELSE IF now - mv_last_signal_time >= debounce_seconds
            THEN /\ mv_pc' = "refreshing"
                 /\ uow' = uow \cup {MvTask}
                 /\ mv_log' = [mv_log EXCEPT !.unserved = FALSE,
                                             !.starts = Min(@ + 1, 2)]
            ELSE UNCHANGED <<mv_pc, mv_log, uow>>
    /\ UNCHANGED <<mv_pending, mv_last_signal_time, inflight>>
    /\ UNCHANGED <<envVars, dbVars, updVars, liveVars, schedVars, auxVars>>

\* the REFRESH and the commit of its unit of work succeeded
MvRefreshOk ==
    /\ mv_pc = "refreshing"
    /\ mv_pending' = FALSE
    /\ mv_last_signal_time' = NoTime
    /\ mv_pc' = "idle"
    /\ mv_log' = [mv_log EXCEPT !.result = "ok"]
    /\ uow' = uow \ {MvTask}
    /\ UNCHANGED <<mv_ticked, inflight>>
    /\ UNCHANGED <<envVars, dbVars, updVars, liveVars, schedVars, auxVars>>

\* mutant: the state is cleared in a "finally" clause
MvRefreshFailClears ==
    /\ mv_pc = "refreshing"
    /\ mv_pending' = FALSE
    /\ mv_last_signal_time' = NoTime
    /\ mv_pc' = "idle"
    /\ mv_log' = [mv_log EXCEPT !.result = "failed",
                                !.starts = IF mv_log.unserved THEN @ ELSE @ - 1]
    /\ uow' = uow \ {MvTask}
    /\ UNCHANGED <<mv_ticked, inflight>>
    /\ UNCHANGED <<envVars, dbVars, updVars, liveVars, schedVars, auxVars>>

\* the REFRESH or its unit of work raised: "except Exception" logs the error
MvRefreshFail ==
    /\ mv_pc = "refreshing"
    /\ mv_pc' = "idle"
    /\ mv_log' = [mv_log EXCEPT !.result = "failed",
                                !.starts = IF mv_log.unserved THEN @ ELSE @ - 1]
    /\ uow' = uow \ {MvTask}
    /\ UNCHANGED <<mv_pending, mv_last_signal_time, mv_ticked, inflight>>
    /\ UNCHANGED <<envVars, dbVars, updVars, liveVars, schedVars, auxVars>>

(***************************************************************************)
(* register_contracts, called by ExchangeOrchestrator.update()             *)
(***************************************************************************)
ContractTask(id) == <<"contract", id>>

NoTables == [sections |-> {}, quotes |-> {}, assets |-> {}, contracts |-> {}]
\* AsterExchange._semaphore: the class-level semaphore of the interval probes
AsterSemaphore == 10
NoProbes == <<>>
ProbesInFlight == {k \in DOMAIN probes : probes[k] = "inflight"}

NoReg == [section_name |-> "", api_contracts |-> {}, listed |-> {}, staged |-> NoTables]

\* mutant: update() starts the per-contract tasks together with
\* register_contracts
UpdateStartGathersAtOnce ==
    /\ upc = "idle"
    /\ upc' = "r_call"
    /\ reg' = [NoReg EXCEPT !.section_name = adapter]
    /\ inflight' = inflight \cup {UpdateTask}
    /\ tasks' = [id \in {c.id : c \in contracts} |->
                    [c |-> CHOOSE c \in contracts : c.id = id,
                     op |-> "sync", pc |-> "wait", cutoff |-> NoTime,
                     tnow |-> NoTime, window |-> [start |-> 0, end |-> 0],
                     points |-> <<>>, total |-> 0, outcome |-> ""]]
    /\ UNCHANGED uow
    /\ UNCHANGED <<envVars, dbVars, mvVars, liveVars, schedVars, auxVars>>

\* update(): calls register_contracts, which awaits adapter.get_contracts()
UpdateStart ==
    /\ upc = "idle"
    /\ upc' = "r_call"
    /\ reg' = [NoReg EXCEPT !.section_name = adapter]
    /\ inflight' = inflight \cup {UpdateTask}
    /\ UNCHANGED <<tasks, uow>>
    /\ UNCHANGED <<envVars, dbVars, mvVars, liveVars, schedVars, auxVars>>

\* get_contracts() of the KuCoin adapter returns
KucoinGetContractsReturn ==
    /\ upc = "r_call"
    /\ adapter = "kucoin"
    /\ LET raw == {[baseCurrency |-> x.asset, quoteCurrency |-> x.quote,
                    fundingRateGranularity |-> x.interval * SecondsPerHour * 1000]
                      : x \in listing}
       IN reg' = [reg EXCEPT !.api_contracts = KucoinGetContracts(raw),
                             !.listed = ListedKeys(listing)]
    /\ upc' = "r_got"
    /\ inflight' = inflight \ {UpdateTask}
    /\ UNCHANGED <<tasks, uow>>
    /\ UNCHANGED <<envVars, dbVars, mvVars, liveVars, schedVars, auxVars>>

\* get_contracts() of the Aster adapter returns: exchangeInfo and premiumIndex
\* were fetched, then one fundingRate probe per symbol
AsterGetContractsReturn ==
    /\ upc = "r_call"
    /\ adapter = "aster"
    /\ \E inPremium \in SUBSET ListedKeys(listing) :
       \E outcome \in [ListedKeys(listing) -> {"ok", "empty", "error"}] :
          LET symbols == {[baseAsset |-> x.asset, quoteAsset |-> x.quote] : x \in listing}
              entry(k) == CHOOSE x \in listing : <<x.asset, x.quote>> = k
              premium_lookup ==
                  [k \in inPremium |->
                      [nextFundingTime |-> (now + entry(k).interval * SecondsPerHour) * 1000]]
              probe ==
                  [k \in ListedKeys(listing) |->
                      [raised |-> outcome[k] = "error",
                       data |-> IF outcome[k] = "ok"
                                THEN <<[fundingTime |-> now * 1000]>>
                                ELSE <<>>]]
          IN reg' = [reg EXCEPT
                        !.api_contracts = AsterGetContracts(symbols, premium_lookup, probe),
                        !.listed = ListedKeys(listing)]
    /\ upc' = "r_got"
    /\ inflight' = inflight \ {UpdateTask}
    /\ UNCHANGED <<tasks, uow>>
    /\ UNCHANGED <<envVars, dbVars, mvVars, liveVars, schedVars, auxVars>>

\* AsterExchange.get_contracts, request by request: exchangeInfo and
\* premiumIndex have returned (every trading symbol is in premiumIndex) and
\* one _detect_funding_interval coroutine per symbol, in list order, is
\* gathered
AsterListReturn ==
    /\ upc = "r_call"
    /\ adapter = "aster"
    /\ probes = NoProbes
    /\ upc' = "r_probe"
    /\ probes' = [i \in 1..Cardinality(ListedKeys(listing)) |-> "wait"]
    /\ inflight' = inflight \ {UpdateTask}
    /\ UNCHANGED <<reg, tasks, uow>>
    /\ UNCHANGED <<envVars, dbVars, mvVars, liveVars>>
    /\ UNCHANGED <<semaphore, concurrency_limit, escaped, scope, auxVars>>

\* _detect_funding_interval: "async with self._semaphore", then the
\* fundingRate request goes upstream; the event loop starts the coroutines
\* and the semaphore wakes its waiters in list order
AsterProbeAcquire(k) ==
    /\ upc = "r_probe" /\ k \in DOMAIN probes
    /\ probes[k] = "wait"
    /\ \A i \in DOMAIN probes : i < k => probes[i] # "wait"
    /\ Cardinality(ProbesInFlight) < AsterSemaphore
    /\ probes' = [probes EXCEPT ![k] = "inflight"]
    /\ UNCHANGED <<updVars, liveVars, resVars>>
    /\ UNCHANGED <<envVars, dbVars, mvVars>>
    /\ UNCHANGED <<semaphore, concurrency_limit, escaped, scope, auxVars>>

\* the fundingRate request returns or raises; the permit is released
AsterProbeReturn(k) ==
    /\ upc = "r_probe" /\ k \in DOMAIN probes
    /\ probes[k] = "inflight"
    /\ probes' = [probes EXCEPT ![k] = "done"]
    /\ UNCHANGED <<updVars, liveVars, resVars>>
    /\ UNCHANGED <<envVars, dbVars, mvVars>>
    /\ UNCHANGED <<semaphore, concurrency_limit, escaped, scope, auxVars>>

\* gather(*tasks) returns: the venue had no funding record yet for any
\* symbol, or every probe raised
AsterProbesGathered ==
    /\ upc = "r_probe"
    /\ \A k \in DOMAIN probes : probes[k] = "done"
    /\ \E outcome \in {"empty", "error"} :
          LET symbols == {[baseAsset |-> x.asset, quoteAsset |-> x.quote] : x \in listing}
              entry(k) == CHOOSE x \in listing : <<x.asset, x.quote>> = k
              premium_lookup ==
                  [k \in ListedKeys(listing) |->
                      [nextFundingTime |-> (now + entry(k).interval * SecondsPerHour) * 1000]]
              probe ==
                  [k \in ListedKeys(listing) |->
                      [raised |-> outcome = "error", data |-> <<>>]]
          IN reg' = [reg EXCEPT
                        !.api_contracts = AsterGetContracts(symbols, premium_lookup, probe),
                        !.listed = ListedKeys(listing)]
    /\ upc' = "r_got"
    /\ probes' = NoProbes
    /\ UNCHANGED <<tasks, uow, inflight>>
    /\ UNCHANGED <<envVars, dbVars, mvVars, liveVars>>
    /\ UNCHANGED <<semaphore, concurrency_limit, escaped, scope, auxVars>>

\* mutant: an empty list is processed like any other list
RegisterEmptyProcessed ==
    /\ upc = "r_got"
    /\ reg.api_contracts = {}
    /\ reg' = [reg EXCEPT !.staged =
                  [sections |-> sections \cup {reg.section_name}, quotes |-> quotes,
                   assets |-> assets,
                   contracts |-> {[c EXCEPT !.deprecated = TRUE] : c \in contracts}]]
    /\ upc' = "r_uow"
    /\ uow' = uow \cup {UpdateTask}
    /\ UNCHANGED <<tasks, inflight>>
    /\ UNCHANGED <<envVars, dbVars, mvVars, liveVars, schedVars, auxVars>>

\* register_contracts: "if not api_contracts: return"
RegisterEmpty ==
    /\ upc = "r_got"
    /\ reg.api_contracts = {}
    /\ upc' = "read"
    /\ UNCHANGED <<reg, tasks, uow, inflight>>
    /\ UNCHANGED <<envVars, dbVars, mvVars, liveVars, schedVars, auxVars>>

\* mutant: contracts missing from the fresh list are left as they are
RegisterWritesNoDeprecation(section_name, api_contracts) ==
    [sections |-> bulk_insert_ignore_names(sections, {section_name}),
     quotes |-> bulk_insert_ignore_names(quotes, {c.quote : c \in api_contracts}),
     assets |-> bulk_insert_ignore_names(assets, {c.asset_name : c \in api_contracts}),
     contracts |-> upsert_many(contracts, SetToSeq(api_contracts), section_name)]

\* the writes register_contracts makes inside its unit of work
RegisterWrites(section_name, api_contracts) ==
    LET sections1 == bulk_insert_ignore_names(sections, {section_name})
        quotes1 == bulk_insert_ignore_names(quotes, {c.quote : c \in api_contracts})
        assets1 == bulk_insert_ignore_names(assets, {c.asset_name : c \in api_contracts})
        existing_contracts == get_by_section(contracts, section_name)
        api_contract_keys == {<<c.asset_name, c.quote>> : c \in api_contracts}
        marked == {IF c \in existing_contracts
                      /\ <<c.asset_name, c.quote_name>> \notin api_contract_keys
                   THEN [c EXCEPT !.deprecated = TRUE]
                   ELSE c : c \in contracts}
    IN [sections |-> sections1, quotes |-> quotes1, assets |-> assets1,
        contracts |-> upsert_many(marked, SetToSeq(api_contracts), section_name)]

\* register_contracts enters its unit of work and issues its statements
RegisterEnter ==
    /\ upc = "r_got"
    /\ reg.api_contracts # {}
    /\ reg' = [reg EXCEPT !.staged = RegisterWrites(reg.section_name, reg.api_contracts)]
    /\ upc' = "r_uow"
    /\ uow' = uow \cup {UpdateTask}
    /\ UNCHANGED <<tasks, inflight>>
    /\ UNCHANGED <<envVars, dbVars, mvVars, liveVars, schedVars, auxVars>>

\* uow.commit() and the exit of the unit of work
RegisterCommit ==
    /\ upc = "r_uow"
    /\ sections' = reg.staged.sections
    /\ quotes' = reg.staged.quotes
    /\ assets' = reg.staged.assets
    /\ contracts' = reg.staged.contracts
    /\ upc' = "r_committed"
    /\ uow' = uow \ {UpdateTask}
    /\ UNCHANGED <<reg, tasks, inflight, hist, live>>
    /\ UNCHANGED <<envVars, mvVars, liveVars, schedVars, auxVars>>

\* MaterializedViewRefresher.signal_contracts_changed; register_contracts returns
RegisterSignal ==
    /\ upc = "r_committed"
    /\ signal_contracts_changed
    /\ upc' = "read"
    /\ UNCHANGED <<reg, tasks, uow, inflight>>
    /\ UNCHANGED <<envVars, dbVars, liveVars, schedVars, auxVars>>

\* mutant: the section row survives the rollback
RegisterRaiseKeepsSection ==
    /\ upc \in {"r_call", "r_uow"}
    /\ upc' = "idle"
    /\ reg' = NoReg
    /\ sections' = IF upc = "r_uow" THEN reg.staged.sections ELSE sections
    /\ uow' = uow \ {UpdateTask}
    /\ inflight' = inflight \ {UpdateTask}
    /\ UNCHANGED <<tasks, quotes, assets, contracts, hist, live>>
    /\ UNCHANGED <<envVars, mvVars, liveVars, schedVars, auxVars>>

\* get_contracts or a statement of the unit of work raises: the unit of work
\* rolls back and update() logs the error and returns
RegisterRaise ==
    /\ upc \in {"r_call", "r_uow"}
    /\ upc' = "idle"
    /\ reg' = NoReg
    /\ uow' = uow \ {UpdateTask}
    /\ inflight' = inflight \ {UpdateTask}
    /\ UNCHANGED tasks
    /\ UNCHANGED <<envVars, dbVars, mvVars, liveVars, schedVars, auxVars>>

\* uow.commit() has returned and the exit of the unit of work raises (its
\* second commit, or the close of the session, where the task may also be
\* cancelled): the writes are persisted, register_contracts raises before
\* the signal, and update() logs the error and returns
RegisterRaiseDuringClose ==
    /\ upc = "r_uow"
    /\ sections' = reg.staged.sections
    /\ quotes' = reg.staged.quotes
    /\ assets' = reg.staged.assets
    /\ contracts' = reg.staged.contracts
    /\ upc' = "idle"
    /\ reg' = NoReg
    /\ uow' = uow \ {UpdateTask}
    /\ inflight' = inflight \ {UpdateTask}
    /\ UNCHANGED <<tasks, hist, live>>
    /\ UNCHANGED <<envVars, mvVars, liveVars, schedVars, auxVars>>

(***************************************************************************)
(* ExchangeOrchestrator.update(): the per-contract tasks                   *)
(***************************************************************************)
\* process_contract(contract): awaits the semaphore, then runs sync_contract
\* if not synced, else update_contract
NewTask(c) ==
    [c |-> c, op |-> IF ~c.synced THEN "sync" ELSE "update",
     pc |-> "wait",
     cutoff |-> NoTime, tnow |-> NoTime, window |-> [start |-> 0, end |-> 0],
     points |-> <<>>, total |-> 0, outcome |-> ""]

\* update(): reads the section's contracts and gathers one task per contract
UpdateRead ==
    /\ upc = "read"
    /\ LET cs == get_by_section(contracts, reg.section_name)
       IN IF cs = {}
          THEN /\ upc' = "idle"
               /\ tasks' = <<>>
          ELSE /\ upc' = "gather"
               /\ tasks' = [id \in {c.id : c \in cs} |->
                               NewTask(CHOOSE c \in cs : c.id = id)]
    /\ UNCHANGED <<reg, uow, inflight>>
    /\ UNCHANGED <<envVars, dbVars, mvVars, liveVars, schedVars, auxVars>>

\* update(): asyncio.gather returned, the statistics are logged
UpdateFinish ==
    /\ upc = "gather"
    /\ \A id \in DOMAIN tasks : tasks[id].pc = "done"
    /\ upc' = "idle"
    /\ tasks' = <<>>
    /\ reg' = NoReg
    /\ UNCHANGED <<uow, inflight>>
    /\ UNCHANGED <<envVars, dbVars, mvVars, liveVars, schedVars, auxVars>>

\* update(): the read of the section's contracts raises; nothing catches it
UpdateReadRaise ==
    /\ upc = "read"
    /\ upc' = "idle"
    /\ reg' = NoReg
    /\ escaped' = escaped \cup {UpdateTask}
    /\ UNCHANGED <<tasks, uow, inflight, semaphore, concurrency_limit, scope, probes, auxVars>>
    /\ UNCHANGED <<envVars, dbVars, mvVars, liveVars>>

\* process_contract: "async with self._semaphore" takes a permit
TaskAcquire(id) ==
    /\ upc = "gather" /\ id \in DOMAIN tasks
    /\ tasks[id].pc = "wait"
    /\ semaphore > 0
    /\ semaphore' = semaphore - 1
    /\ tasks' = [tasks EXCEPT ![id].pc = IF tasks[id].op = "sync" THEN "s_read"
                                         ELSE "u_read"]
    /\ UNCHANGED <<upc, reg, uow, inflight, concurrency_limit, escaped, scope, probes, auxVars>>
    /\ UNCHANGED <<envVars, dbVars, mvVars, liveVars>>

\* process_contract: leaving "async with self._semaphore", by return or by
\* exception, gives the permit back
SemaphoreExit(id) ==
    semaphore' = IF tasks'[id].pc = "done" THEN semaphore + 1 ELSE semaphore

\* mutant: every sync_contract call starts again from the present
SyncReadOldestFromNow(id) ==
    /\ upc = "gather" /\ id \in DOMAIN tasks
    /\ tasks[id].pc = "s_read"
    /\ LET oldest == IF tasks[id].total = 0 THEN NoTime
                     ELSE get_oldest_for_contract(hist, tasks[id].c.id)
           before_timestamp == IF oldest # NoTime THEN oldest - OneSecond ELSE NoTime
       IN tasks' = [tasks EXCEPT ![id].cutoff = before_timestamp,
                                 ![id].window = fetch_history_before(adapter, before_timestamp, now),
                                 ![id].pc = "s_await"]
    /\ inflight' = inflight \cup {ContractTask(id)}
    /\ UNCHANGED <<upc, reg, uow>>
    /\ UNCHANGED <<envVars, dbVars, mvVars, liveVars>>
    /\ SemaphoreExit(id)
    /\ UNCHANGED <<concurrency_limit, escaped, scope, probes, auxVars>>

\* mutant: the cutoff is the oldest stored timestamp itself
SyncReadOldestNoShift(id) ==
    /\ upc = "gather" /\ id \in DOMAIN tasks
    /\ tasks[id].pc = "s_read"
    /\ LET oldest == get_oldest_for_contract(hist, tasks[id].c.id)
           before_timestamp == oldest
       IN tasks' = [tasks EXCEPT ![id].cutoff = before_timestamp,
                                 ![id].window = fetch_history_before(adapter, before_timestamp, now),
                                 ![id].pc = "s_await"]
    /\ inflight' = inflight \cup {ContractTask(id)}
    /\ UNCHANGED <<upc, reg, uow>>
    /\ UNCHANGED <<envVars, dbVars, mvVars, liveVars>>
    /\ SemaphoreExit(id)
    /\ UNCHANGED <<concurrency_limit, escaped, scope, probes, auxVars>>

\* sync_contract, top of the loop: reads the oldest stored point in a short
\* unit of work, leaves it, and calls fetch_history_before
SyncReadOldest(id) ==
    /\ upc = "gather" /\ id \in DOMAIN tasks
    /\ tasks[id].pc = "s_read"
    /\ LET oldest == get_oldest_for_contract(hist, tasks[id].c.id)
           before_timestamp == IF oldest # NoTime THEN oldest - OneSecond ELSE NoTime
       IN tasks' = [tasks EXCEPT ![id].cutoff = before_timestamp,
                                 ![id].window = fetch_history_before(adapter, before_timestamp, now),
                                 ![id].pc = "s_await"]
    /\ inflight' = inflight \cup {ContractTask(id)}
    /\ UNCHANGED <<upc, reg, uow>>
    /\ UNCHANGED <<envVars, dbVars, mvVars, liveVars>>
    /\ SemaphoreExit(id)
    /\ UNCHANGED <<concurrency_limit, escaped, scope, probes, auxVars>>

\* mutant: the contract is marked synced after the first fetch, whatever it
\* returned
SyncFetchedMarksAlways(id) ==
    /\ upc = "gather" /\ id \in DOMAIN tasks
    /\ tasks[id].pc = "s_await"
    /\ tasks' = [tasks EXCEPT ![id].points = fetch_history(venue, tasks[id].window),
                              ![id].pc = "s_mark"]
    /\ inflight' = inflight \ {ContractTask(id)}
    /\ uow' = uow \cup {ContractTask(id)}
    /\ UNCHANGED <<upc, reg>>
    /\ UNCHANGED <<envVars, dbVars, mvVars, liveVars>>
    /\ SemaphoreExit(id)
    /\ UNCHANGED <<concurrency_limit, escaped, scope, probes, auxVars>>

\* sync_contract: fetch_history_before returned; on an empty list a unit of
\* work is entered and the merged contract gets synced = True, otherwise a
\* unit of work is entered and the batch is insert-ignored
SyncFetched(id) ==
    /\ upc = "gather" /\ id \in DOMAIN tasks
    /\ tasks[id].pc = "s_await"
    /\ LET points == fetch_history(venue, tasks[id].window)
       IN tasks' = [tasks EXCEPT ![id].points = points,
                                 ![id].pc = IF points = <<>> THEN "s_mark" ELSE "s_insert"]
    /\ inflight' = inflight \ {ContractTask(id)}
    /\ uow' = uow \cup {ContractTask(id)}
    /\ UNCHANGED <<upc, reg>>
    /\ UNCHANGED <<envVars, dbVars, mvVars, liveVars>>
    /\ SemaphoreExit(id)
    /\ UNCHANGED <<concurrency_limit, escaped, scope, probes, auxVars>>

\* uow.merge(contract) with synced = True: the row of that id takes the state
\* of the detached contract
MergeSynced(table, c) ==
    {x \in table : x.id # c.id} \cup {[c EXCEPT !.synced = TRUE]}

\* sync_contract: synced = True is committed, the loop is left
SyncMarkCommit(id) ==
    /\ upc = "gather" /\ id \in DOMAIN tasks
    /\ tasks[id].pc = "s_mark"
    /\ contracts' = MergeSynced(contracts, tasks[id].c)
    /\ tasks' = [tasks EXCEPT ![id].pc = "done", ![id].outcome = "ok"]
    /\ uow' = uow \ {ContractTask(id)}
    /\ UNCHANGED <<upc, reg, inflight>>
    /\ UNCHANGED <<sections, quotes, assets, hist, live>>
    /\ UNCHANGED <<envVars, mvVars, liveVars>>
    /\ SemaphoreExit(id)
    /\ UNCHANGED <<concurrency_limit, escaped, scope, probes, auxVars>>

\* sync_contract: the batch is committed, the loop continues
SyncInsertCommit(id) ==
    /\ upc = "gather" /\ id \in DOMAIN tasks
    /\ tasks[id].pc = "s_insert"
    /\ hist' = bulk_insert_ignore(hist, FundingRecords(tasks[id].c.id, tasks[id].points))
    /\ tasks' = [tasks EXCEPT ![id].pc = "s_read",
                              ![id].total = @ + Len(tasks[id].points)]
    /\ uow' = uow \ {ContractTask(id)}
    /\ UNCHANGED <<upc, reg, inflight>>
    /\ UNCHANGED <<sections, quotes, assets, contracts, live>>
    /\ UNCHANGED <<envVars, mvVars, liveVars>>
    /\ SemaphoreExit(id)
    /\ UNCHANGED <<concurrency_limit, escaped, scope, probes, auxVars>>

\* update_contract: "time_since_last < required_interval"
IntervalNotElapsed(clock, after_timestamp, funding_interval) ==
    clock - after_timestamp < funding_interval * SecondsPerHour

\* update_contract: enters its unit of work, reads the newest stored point,
\* returns 0 when there is none or the interval has not elapsed, otherwise
\* calls fetch_history_after
UpdateCheck(id) ==
    /\ upc = "gather" /\ id \in DOMAIN tasks
    /\ tasks[id].pc = "u_read"
    /\ LET newest == get_newest_for_contract(hist, tasks[id].c.id)
           after_timestamp == IF newest # NoTime THEN newest + OneSecond ELSE NoTime
       IN IF after_timestamp = NoTime
          THEN /\ tasks' = [tasks EXCEPT ![id].pc = "done", ![id].outcome = "no_data"]
               /\ UNCHANGED <<uow, inflight>>
          ELSE IF IntervalNotElapsed(now, after_timestamp, tasks[id].c.funding_interval)
          THEN /\ tasks' = [tasks EXCEPT ![id].pc = "done", ![id].outcome = "skipped",
                                         ![id].cutoff = after_timestamp, ![id].tnow = now]
               /\ UNCHANGED <<uow, inflight>>
          ELSE /\ tasks' = [tasks EXCEPT ![id].pc = "u_await",
                                         ![id].cutoff = after_timestamp, ![id].tnow = now,
                                         ![id].window = fetch_history_after(after_timestamp, now)]
               /\ uow' = uow \cup {ContractTask(id)}
               /\ inflight' = inflight \cup {ContractTask(id)}
    /\ UNCHANGED <<upc, reg>>
    /\ UNCHANGED <<envVars, dbVars, mvVars, liveVars>>
    /\ SemaphoreExit(id)
    /\ UNCHANGED <<concurrency_limit, escaped, scope, probes, auxVars>>

\* update_contract: fetch_history_after returned; an empty list ends the
\* call, otherwise the points are insert-ignored in the unit of work
UpdateFetched(id) ==
    /\ upc = "gather" /\ id \in DOMAIN tasks
    /\ tasks[id].pc = "u_await"
    /\ LET points == fetch_history(venue, tasks[id].window)
       IN IF points = <<>>
          THEN /\ tasks' = [tasks EXCEPT ![id].points = points, ![id].pc = "done",
                                         ![id].outcome = "ok"]
               /\ uow' = uow \ {ContractTask(id)}
          ELSE /\ tasks' = [tasks EXCEPT ![id].points = points, ![id].pc = "u_insert"]
               /\ UNCHANGED uow
    /\ inflight' = inflight \ {ContractTask(id)}
    /\ UNCHANGED <<upc, reg>>
    /\ UNCHANGED <<envVars, dbVars, mvVars, liveVars>>
    /\ SemaphoreExit(id)
    /\ UNCHANGED <<concurrency_limit, escaped, scope, probes, auxVars>>

\* update_contract: the unit of work commits on exit
UpdateInsertCommit(id) ==
    /\ upc = "gather" /\ id \in DOMAIN tasks
    /\ tasks[id].pc = "u_insert"
    /\ hist' = bulk_insert_ignore(hist, FundingRecords(tasks[id].c.id, tasks[id].points))
    /\ tasks' = [tasks EXCEPT ![id].pc = "done", ![id].outcome = "ok",
                              ![id].total = Len(tasks[id].points)]
    /\ uow' = uow \ {ContractTask(id)}
    /\ UNCHANGED <<upc, reg, inflight>>
    /\ UNCHANGED <<sections, quotes, assets, contracts, live>>
    /\ UNCHANGED <<envVars, mvVars, liveVars>>
    /\ SemaphoreExit(id)
    /\ UNCHANGED <<concurrency_limit, escaped, scope, probes, auxVars>>

\* mutant: the exception leaves asyncio.gather and ends update()
TaskRaiseEndsUpdate(id) ==
    /\ upc = "gather" /\ id \in DOMAIN tasks
    /\ tasks[id].pc \notin {"wait", "done"}
    /\ upc' = "idle"
    /\ tasks' = <<>>
    /\ reg' = NoReg
    /\ uow' = uow \ {ContractTask(id)}
    /\ inflight' = inflight \ {ContractTask(id)}
    /\ semaphore' = semaphore + 1
    /\ UNCHANGED <<envVars, dbVars, mvVars, liveVars>>
    /\ UNCHANGED <<concurrency_limit, escaped, scope, probes, auxVars>>

\* mutant: the permit is released only on the normal path
TaskRaiseKeepsPermit(id) ==
    /\ upc = "gather" /\ id \in DOMAIN tasks
    /\ tasks[id].pc \notin {"wait", "done"}
    /\ tasks' = [tasks EXCEPT ![id].pc = "done", ![id].outcome = "failed"]
    /\ uow' = uow \ {ContractTask(id)}
    /\ inflight' = inflight \ {ContractTask(id)}
    /\ UNCHANGED <<upc, reg>>
    /\ UNCHANGED <<envVars, dbVars, mvVars, liveVars>>
    /\ UNCHANGED <<semaphore, concurrency_limit, escaped, scope, probes, auxVars>>

\* process_contract: the timeout expires or the adapter or the database
\* raises; an entered unit of work rolls back, the error is logged
TaskRaise(id) ==
    /\ upc = "gather" /\ id \in DOMAIN tasks
    /\ tasks[id].pc \notin {"wait", "done"}
    /\ tasks' = [tasks EXCEPT ![id].pc = "done", ![id].outcome = "failed"]
    /\ uow' = uow \ {ContractTask(id)}
    /\ inflight' = inflight \ {ContractTask(id)}
    /\ UNCHANGED <<upc, reg>>
    /\ UNCHANGED <<envVars, dbVars, mvVars, liveVars>>
    /\ SemaphoreExit(id)
    /\ UNCHANGED <<concurrency_limit, escaped, scope, probes, auxVars>>

\* process_contract: asyncio.timeout(600) cancels sync_contract where it is
\* suspended; an entered unit of work rolls back, the warning is logged
SyncTimeout(id) ==
    /\ id \in DOMAIN tasks
    /\ tasks[id].op = "sync"
    /\ TaskRaise(id)

\* process_contract: the timeout cancels sync_contract while its unit of work
\* is closing (UnitOfWork._close awaits the shielded session.close()), after
\* "await uow.commit()" has returned: what was committed stays committed
SyncTimeoutDuringClose(id) ==
    /\ upc = "gather" /\ id \in DOMAIN tasks
    /\ tasks[id].pc \in {"s_insert", "s_mark"}
    /\ IF tasks[id].pc = "s_insert"
       THEN /\ hist' = bulk_insert_ignore(hist, FundingRecords(tasks[id].c.id, tasks[id].points))
            /\ UNCHANGED contracts
       ELSE /\ contracts' = MergeSynced(contracts, tasks[id].c)
            /\ UNCHANGED hist
    /\ tasks' = [tasks EXCEPT ![id].pc = "done", ![id].outcome = "failed"]
    /\ uow' = uow \ {ContractTask(id)}
    /\ UNCHANGED <<upc, reg, inflight>>
    /\ UNCHANGED <<sections, quotes, assets, live>>
    /\ UNCHANGED <<envVars, mvVars, liveVars>>
    /\ SemaphoreExit(id)
    /\ UNCHANGED <<concurrency_limit, escaped, scope, probes, auxVars>>

(***************************************************************************)
(* collect_live                                                            *)
(***************************************************************************)
NoLive == [contracts |-> {}, records |-> <<>>]

\* live rates are sampled during the first MaxLiveInstant instants
LiveSampling == Cardinality({t \in Instants : t <= now}) <= MaxLiveInstant

\* collect_live: reads the active contracts in a short unit of work, leaves
\* it, and calls the adapter.  The live actions model the body of
\* collect_live as run with all five of its parameters; update_live() in
\* exchange_orchestrator.py passes only the first three.
LiveStart ==
    /\ lpc = "idle"
    /\ LiveSampling
    /\ LET cs == get_active_by_section(contracts, adapter)
       IN IF cs = {}
          THEN UNCHANGED <<lpc, ltask, inflight>>
          ELSE /\ lpc' = "l_await"
               /\ ltask' = [NoLive EXCEPT !.contracts = cs]
               /\ inflight' = inflight \cup {LiveTask}
    /\ UNCHANGED uow
    /\ UNCHANGED <<envVars, dbVars, mvVars, updVars, schedVars, auxVars>>

\* collect_live: the adapter returned rates for some of the contracts; when
\* there are none the call returns, otherwise a unit of work is entered and
\* the live records are insert-ignored
LiveFetched ==
    /\ lpc = "l_await"
    /\ LiveSampling
    /\ \E got \in SUBSET {c.id : c \in ltask.contracts} : \E r \in Rates :
          LET live_records == [i \in 1..Cardinality(got) |->
                                 [contract_id |-> SetToSeq(got)[i], timestamp |-> now,
                                  funding_rate |-> r]]
          IN IF live_records = <<>>
             THEN /\ lpc' = "idle"
                  /\ ltask' = NoLive
                  /\ UNCHANGED uow
             ELSE /\ lpc' = "l_insert"
                  /\ ltask' = [ltask EXCEPT !.records = live_records]
                  /\ uow' = uow \cup {LiveTask}
    /\ inflight' = inflight \ {LiveTask}
    /\ UNCHANGED <<envVars, dbVars, mvVars, updVars, schedVars, auxVars>>

\* collect_live: the unit of work commits on exit
LiveInsertCommit ==
    /\ lpc = "l_insert"
    /\ live' = bulk_insert_ignore(live, ltask.records)
    /\ lpc' = "idle"
    /\ ltask' = NoLive
    /\ uow' = uow \ {LiveTask}
    /\ UNCHANGED inflight
    /\ UNCHANGED <<sections, quotes, assets, contracts, hist>>
    /\ UNCHANGED <<envVars, mvVars, updVars, schedVars, auxVars>>

\* collect_live raises (adapter or database); update_live() logs the error
LiveRaise ==
    /\ lpc # "idle"
    /\ lpc' = "idle"
    /\ ltask' = NoLive
    /\ uow' = uow \ {LiveTask}
    /\ inflight' = inflight \ {LiveTask}
    /\ UNCHANGED <<envVars, dbVars, mvVars, updVars, schedVars, auxVars>>

(***************************************************************************)
(* Startup: build_runtime_config, bootstrap, run_scheduler                 *)
(***************************************************************************)
\* an int option that was not given (None)
NoneInt == 0 - 100
\* the registered exchanges, each named by its rank in sorted order
all_exchanges == 1..MaxExchanges
\* tokens of a comma-separated exchanges string: a blank item, a registered
\* exchange, an exchange that is not registered
Blank == 0
Unknown == MaxExchanges + 1
Tokens == {Blank, Unknown} \cup all_exchanges
\* a list[str] | None
NoneList == [is_none |-> TRUE, list |-> <<>>]
SomeList(l) == [is_none |-> FALSE, list |-> l]
\* an exchanges string: None, or the items between its commas ("" has none)
NoneSpec == [is_none |-> TRUE, items |-> <<>>]
ExchangeSpecs ==
    {NoneSpec} \cup
    {[is_none |-> FALSE, items |-> it] :
        it \in UNION {[1..n -> Tokens] : n \in 0..MaxSpecItems}}

\* sorted(S)
sorted(S) ==
    IF S = {} THEN <<>>
    ELSE CHOOSE l \in [1..Cardinality(S) -> S] :
            \A i, j \in 1..Cardinality(S) : i < j => l[i] < l[j]

\* _parse_exchanges_spec
parse_exchanges_spec(exchanges_spec, registered) ==
    IF exchanges_spec.is_none \/ exchanges_spec.items = <<>> THEN NoneList
    ELSE LET requested == Range(exchanges_spec.items) \ {Blank}
             valid == sorted(requested \cap registered)
         IN IF requested = {} THEN NoneList
            ELSE IF valid # <<>> THEN SomeList(valid)
            ELSE NoneList

\* l[start::step] of Python, for start >= 0 and step >= 1
SliceFrom(l, start, step) ==
    LET count == IF start >= Len(l) THEN 0 ELSE (Len(l) - start + step - 1) \div step
    IN [k \in 1..count |-> l[start + (k - 1) * step + 1]]

\* mutant: each instance takes a contiguous block instead of every T-th item
filter_exchanges_by_block(exchanges, instance_id, total_instances) ==
    IF total_instances <= 1 THEN exchanges
    ELSE LET sorted_exchanges == sorted(Range(exchanges))
             size == (Len(sorted_exchanges) + total_instances - 1) \div total_instances
         IN SubSeq(sorted_exchanges, instance_id * size + 1,
                   Min((instance_id + 1) * size, Len(sorted_exchanges)))

\* _filter_exchanges_by_instance
filter_exchanges_by_instance(exchanges, instance_id, total_instances) ==
    IF total_instances <= 1 THEN exchanges
    ELSE LET sorted_exchanges == sorted(Range(exchanges))
         IN SliceFrom(sorted_exchanges, instance_id, total_instances)

\* args.x if args.x is not None else settings.x
Merged(arg, setting) == IF arg # NoneInt THEN arg ELSE setting

\* mutant: an instance_id equal to total_instances is let through
InstanceOutOfRangeOffByOne(instance_id, total_instances) ==
    total_instances <= 0 \/ instance_id < 0 \/ instance_id > total_instances

\* build_runtime_config: the three checks that raise ValueError
InstanceOutOfRange(instance_id, total_instances) ==
    total_instances <= 0 \/ instance_id < 0 \/ instance_id >= total_instances

NoConfig == [exchanges |-> NoneList, instance_id |-> NoneInt, total_instances |-> NoneInt]
NoCfg == [phase |-> "none",
          args |-> [exchanges |-> NoneSpec, instance_id |-> NoneInt,
                    total_instances |-> NoneInt],
          settings |-> [exchanges |-> NoneSpec, instance_id |-> 0, total_instances |-> 1],
          resolved |-> <<>>, config |-> NoConfig]

\* build_runtime_config(args, settings, all_exchanges)
build_runtime_config ==
    /\ cfg.phase = "start"
    /\ LET exchanges_arg == IF ~cfg.args.exchanges.is_none THEN cfg.args.exchanges
                            ELSE cfg.settings.exchanges
           instance_id == Merged(cfg.args.instance_id, cfg.settings.instance_id)
           total_instances == Merged(cfg.args.total_instances, cfg.settings.total_instances)
           parsed == parse_exchanges_spec(exchanges_arg, all_exchanges)
           exchanges == IF parsed.is_none THEN sorted(all_exchanges) ELSE parsed.list
           result == IF total_instances > 1
                     THEN SomeList(filter_exchanges_by_instance(exchanges, instance_id,
                                                                total_instances))
                     ELSE IF Len(exchanges) = Cardinality(all_exchanges) THEN NoneList
                     ELSE SomeList(exchanges)
       IN IF InstanceOutOfRange(instance_id, total_instances)
          THEN cfg' = [cfg EXCEPT !.phase = "raised"]
          ELSE cfg' = [cfg EXCEPT !.phase = "built", !.resolved = exchanges,
                                  !.config = [exchanges |-> result,
                                              instance_id |-> instance_id,
                                              total_instances |-> total_instances]]
    /\ UNCHANGED <<coreVars, boot, callVars>>

\* seconds of a minute
SecondsPerMinute == 60
NoBoot == [pc |-> "none", exchanges |-> <<>>, seconds_per_exchange |-> 0, jobs |-> <<>>]

\* bootstrap(exchanges=...) up to its loop
bootstrap_enter(exchanges) ==
    LET l == IF exchanges.is_none THEN sorted(all_exchanges) ELSE exchanges.list
    IN boot' = [pc |-> "loop", exchanges |-> l,
                seconds_per_exchange |-> IF l # <<>> THEN SecondsPerMinute \div Len(l) ELSE 0,
                jobs |-> <<>>]

\* run_scheduler calls bootstrap with the exchanges of the runtime configuration
BootstrapConfigured ==
    /\ cfg.phase = "built"
    /\ boot.pc = "none"
    /\ bootstrap_enter(cfg.config.exchanges)
    /\ UNCHANGED <<coreVars, cfg, callVars>>

\* number of exchanges whose jobs the loop of bootstrap has registered
Registered == Cardinality({k \in 1..Len(boot.jobs) : boot.jobs[k].kind = "update"})

\* mutant: the live jobs are spread by position in the minute, rounded up
BootstrapRegisterCeil ==
    /\ boot.pc = "loop"
    /\ Registered < Len(boot.exchanges)
    /\ LET idx == Registered
           exchange_name == boot.exchanges[idx + 1]
           second == idx * ((SecondsPerMinute + Len(boot.exchanges) - 1)
                            \div Len(boot.exchanges))
       IN boot' = [boot EXCEPT !.jobs = boot.jobs \o
                      << [kind |-> "update", exchange |-> exchange_name, second |-> 5],
                         [kind |-> "live", exchange |-> exchange_name, second |-> second] >>]
    /\ UNCHANGED <<coreVars, cfg, callVars>>

\* one turn of the loop of bootstrap: the update job and the live job of the
\* exchange at position idx
BootstrapRegister ==
    /\ boot.pc = "loop"
    /\ Registered < Len(boot.exchanges)
    /\ LET idx == Registered
           exchange_name == boot.exchanges[idx + 1]
           second == idx * boot.seconds_per_exchange
       IN boot' = [boot EXCEPT !.jobs = boot.jobs \o
                      << [kind |-> "update", exchange |-> exchange_name, second |-> 5],
                         [kind |-> "live", exchange |-> exchange_name, second |-> second] >>]
    /\ UNCHANGED <<coreVars, cfg, callVars>>

\* bootstrap registers the materialized-view job and returns the scheduler
BootstrapReturn ==
    /\ boot.pc = "loop"
    /\ Registered = Len(boot.exchanges)
    /\ boot' = [boot EXCEPT !.pc = "built",
                            !.jobs = boot.jobs \o
                               << [kind |-> "mv", exchange |-> Blank, second |-> 0] >>]
    /\ UNCHANGED <<coreVars, cfg, callVars>>

\* run_scheduler: scheduler.start()
SchedulerStart ==
    /\ boot.pc = "built"
    /\ boot' = [boot EXCEPT !.pc = "started"]
    /\ UNCHANGED <<coreVars, cfg, callVars>>

(***************************************************************************)
(* http_client: get / post under the tenacity retry decorator              *)
(***************************************************************************)
\* stop_after_delay(60)
RetryStopDelay == 60
\* wait_exponential(multiplier=1, max=10)
RetryMultiplier == 1
RetryMaxWait == 10
\* timeout: float = 30.0
HttpTimeout == 30
\* how long an attempt may take, in whole seconds
AttemptDurations == {0, 1, HttpTimeout}
\* how an attempt ends: parsed JSON, httpx.RequestError (transport),
\* httpx.HTTPStatusError from raise_for_status(), ValueError from
\* response.json()
AttemptOutcomes == {"ok", "transport", "status", "json_error"}
HTTPError == {"transport", "status"}

RECURSIVE Pow2(_)
Pow2(n) == IF n <= 0 THEN 1 ELSE 2 * Pow2(n - 1)

\* wait_exponential(multiplier=1, max=10): the wait after the given attempt
wait_exponential(attempt_number) ==
    Min(RetryMultiplier * Pow2(attempt_number - 1), RetryMaxWait)

NoHttp == [pc |-> "idle", method |-> "", t |-> 0, start |-> 0, began |-> 0,
           attempt_number |-> 0, waits |-> <<>>, error |-> "", result |-> ""]
NoHcall == [pc |-> "none", adapter |-> "", direction |-> "", cutoff |-> NoTime,
            clock |-> 0, records |-> {}, window |-> [start |-> 0, end |-> 0],
            request |-> [start |-> NoTime, end |-> NoTime], points |-> {}]
NoLcall == [pc |-> "none", adapter |-> "", contracts |-> <<>>, response |-> {},
            fetches |-> <<>>, result |-> {}]

\* get(...) / post(...) is called: the first attempt begins
HttpCall ==
    /\ http.pc = "idle"
    /\ \E method \in {"get", "post"} :
          http' = [http EXCEPT !.pc = "attempt", !.method = method, !.start = http.t,
                               !.began = http.t, !.attempt_number = 1]
    /\ UNCHANGED <<coreVars, startVars, hcall, lcall, live_run, adapterVars>>

\* an attempt ends after d seconds; tenacity returns the result, re-raises an
\* exception it does not retry on, stops (reraise=True) or sleeps
HttpAttemptEnds ==
    /\ http.pc = "attempt"
    /\ \E d \in AttemptDurations : \E outcome \in AttemptOutcomes :
          LET t == http.t + d
          IN IF outcome = "ok"
             THEN http' = [http EXCEPT !.pc = "returned", !.t = t, !.result = "json"]
             ELSE IF outcome \notin HTTPError
             THEN http' = [http EXCEPT !.pc = "raised", !.t = t, !.error = outcome]
             ELSE IF t - http.start >= RetryStopDelay
             THEN http' = [http EXCEPT !.pc = "raised", !.t = t, !.error = outcome]
             ELSE http' = [http EXCEPT !.pc = "wait", !.t = t, !.error = outcome,
                              !.waits = Append(http.waits,
                                               wait_exponential(http.attempt_number))]
    /\ UNCHANGED <<coreVars, startVars, hcall, lcall, live_run, adapterVars>>

\* the sleep is over: the next attempt begins
HttpWaitEnds ==
    /\ http.pc = "wait"
    /\ LET t == http.t + http.waits[Len(http.waits)]
       IN http' = [http EXCEPT !.pc = "attempt", !.t = t, !.began = t,
                               !.attempt_number = http.attempt_number + 1]
    /\ UNCHANGED <<coreVars, startVars, hcall, lcall, live_run, adapterVars>>

(***************************************************************************)
(* One fetch_history_before / fetch_history_after call of an adapter       *)
(***************************************************************************)
HistoryAdapters == {"kucoin", "dydx", "derive"}
\* the stored boundary the caller shifted by one second
CutoffTime == 2 * DYDX_FETCH_STEP * SecondsPerHour
\* datetime.now() at the call: soon after the cutoff, or more than
\* _FETCH_STEP hours after it
CallClocks(a) ==
    {CutoffTime + SecondsPerHour, CutoffTime + (FETCH_STEP(a) + 1) * SecondsPerHour}
\* settlement times the venue may hold records for
VenueTimes(a) ==
    {CutoffTime - (FETCH_STEP(a) + 1) * SecondsPerHour, CutoffTime - SecondsPerHour,
     CutoffTime, CutoffTime + SecondsPerHour}

\* _fetch_history(contract, start_ms, end_ms): the time bounds the request
\* carries (in seconds, as the records' times are).  KuCoin sends from / to; dYdX sends effectiveBeforeOrAt only,
\* Derive end_timestamp only (NoTime: the bound is not sent)
HistoryRequest(a, window) ==
    IF a \in {"dydx", "derive"}
    THEN [start |-> NoTime, end |-> window.end]
    ELSE [start |-> window.start, end |-> window.end]

\* the records of the venue that match the request
VenueMatches(records, request) ==
    {ts \in records :
        /\ request.start # NoTime => ts >= request.start
        /\ ts <= request.end}

\* the adapter calls the default fetch_history_before / fetch_history_after
\* and sends its request
HistoryCall ==
    /\ hcall.pc = "none"
    /\ \E a \in HistoryAdapters : \E direction \in {"before", "after"} :
       \E cutoff \in {NoTime, CutoffTime} : \E clock \in CallClocks(a) :
       \E records \in SUBSET VenueTimes(a) :
          /\ direction = "after" => cutoff # NoTime
          /\ LET window == IF direction = "before"
                           THEN fetch_history_before(a, cutoff, clock)
                           ELSE fetch_history_after(cutoff, clock)
             IN hcall' = [NoHcall EXCEPT !.pc = "sent", !.adapter = a,
                                         !.direction = direction, !.cutoff = cutoff,
                                         !.clock = clock, !.records = records,
                                         !.window = window,
                                         !.request = HistoryRequest(a, window)]
    /\ UNCHANGED <<coreVars, startVars, http, lcall, live_run, adapterVars>>

\* the venue answers with records matching the request (all of them or,
\* under its page limit, some); every record becomes a FundingPoint
HistoryReturn ==
    /\ hcall.pc = "sent"
    /\ \E raw_records \in SUBSET VenueMatches(hcall.records, hcall.request) :
          hcall' = [hcall EXCEPT !.pc = "returned",
                                 !.points = raw_records]
    /\ UNCHANGED <<coreVars, startVars, http, lcall, live_run, adapterVars>>

(***************************************************************************)
(* One fetch_live call of an adapter                                       *)
(***************************************************************************)
BatchAdapters == {"hyperliquid", "bybit"}
LiveAssets == {"BTC", "ETH"}
LiveQuotes == {"USDT", "USDC", "PERP"}
\* contracts of a section: one per (asset, quote)
LiveContracts == [asset : LiveAssets, quote_name : LiveQuotes]
\* lists of distinct contracts
ContractLists(pool, n) ==
    {l \in UNION {[1..k -> pool] : k \in 0..n} :
        \A i, j \in 1..Len(l) : i # j => l[i] # l[j]}

\* BybitExchange._SUFFIXES.get(quote_name, quote_name)
BybitSuffix(quote_name) == IF quote_name = "USDC" THEN "PERP" ELSE quote_name

\* _format_symbol of the adapter
format_symbol(a, contract) ==
    IF a = "bybit" THEN contract.asset \o BybitSuffix(contract.quote_name)
    ELSE contract.asset

\* symbols the venue's all-markets response may carry
VenueSymbols(a) == {format_symbol(a, c) : c \in LiveContracts}

RECURSIVE DictFromList(_, _)
\* {key(c): c for c in contracts}: a later item replaces an earlier one
\* with the same key
DictFromList(a, l) ==
    IF l = <<>> THEN <<>>
    ELSE LET rest == DictFromList(a, SubSeq(l, 1, Len(l) - 1))
             last == l[Len(l)]
             k == format_symbol(a, last)
         IN [x \in (DOMAIN rest) \cup {k} |-> IF x = k THEN last ELSE rest[x]]

\* fetch_live of a batch adapter: the contracts of the returned map
fetch_live(a, contract_list, all_rates) ==
    LET symbol_to_contract == DictFromList(a, contract_list)
    IN {symbol_to_contract[symbol] : symbol \in all_rates \cap DOMAIN symbol_to_contract}

\* fetch_live(contracts) of a batch adapter is called and sends its
\* all-markets request
LiveBatchCall ==
    /\ lcall.pc = "none"
    /\ \E a \in BatchAdapters : \E l \in ContractLists(LiveContracts, MaxLiveList) :
          lcall' = [NoLcall EXCEPT !.pc = "batch", !.adapter = a, !.contracts = l]
    /\ UNCHANGED <<coreVars, startVars, http, hcall, live_run, adapterVars>>

\* the venue answers with its markets; fetch_live returns its map
LiveBatchReturn ==
    /\ lcall.pc = "batch"
    /\ \E all_rates \in SUBSET VenueSymbols(lcall.adapter) :
          lcall' = [lcall EXCEPT !.pc = "returned", !.response = all_rates,
                                 !.result = fetch_live(lcall.adapter, lcall.contracts,
                                                       all_rates)]
    /\ UNCHANGED <<coreVars, startVars, http, hcall, live_run, adapterVars>>

\* fetch_live_parallel: semaphore = asyncio.Semaphore(10)
FetchLiveSemaphore == 10
\* how _fetch_live_single of OKX ends: a FundingPoint; httpx.HTTPError; no
\* "data" (ValueError); a rate that float() rejects (ValueError); a record
\* without "fundingRate" (KeyError); a response that is no dict or a record
\* that is none (AttributeError, TypeError)
SingleOutcomes ==
    {"ok", "http_error", "no_data", "bad_rate", "missing_field", "wrong_shape"}
\* what fetch_one catches: HTTPError and ValueError
CaughtByFetchOne == {"http_error", "no_data", "bad_rate"}
\* contracts of the long list
ParallelContract(i) == [asset |-> "C" \o ToString(i), quote_name |-> "USDT"]
FetchesInFlight == {i \in DOMAIN lcall.fetches : lcall.fetches[i] = "inflight"}

\* fetch_live(contracts) of OKX calls fetch_live_parallel, which gathers one
\* fetch_one per contract
LiveParallelCall ==
    /\ lcall.pc = "none"
    /\ \E l \in ContractLists(LiveContracts, MaxLiveList)
                  \cup {[i \in 1..MaxParallel |-> ParallelContract(i)]} :
          /\ l # <<>>
          /\ lcall' = [NoLcall EXCEPT !.pc = "gather", !.adapter = "okx",
                                      !.contracts = l,
                                      !.fetches = [i \in 1..Len(l) |-> "wait"]]
    /\ UNCHANGED <<coreVars, startVars, http, hcall, live_run, adapterVars>>

\* fetch_one: "async with semaphore", then _fetch_live_single goes upstream;
\* the coroutines start, and the semaphore wakes its waiters, in list order
LiveSingleAcquire(i) ==
    /\ lcall.pc = "gather" /\ i \in DOMAIN lcall.fetches
    /\ lcall.fetches[i] = "wait"
    /\ \A j \in DOMAIN lcall.fetches : j < i => lcall.fetches[j] # "wait"
    /\ Cardinality(FetchesInFlight) < FetchLiveSemaphore
    /\ lcall' = [lcall EXCEPT !.fetches[i] = "inflight"]
    /\ UNCHANGED <<coreVars, startVars, http, hcall, live_run, adapterVars>>

\* _fetch_live_single ends: fetch_one returns the point, or None for what it
\* catches; any other exception leaves fetch_one, and gather hands it to
\* the caller of fetch_live_parallel at once.  The venue of the long list
\* answers every request.
LiveSingleEnds(i) ==
    /\ lcall.pc = "gather" /\ i \in DOMAIN lcall.fetches
    /\ lcall.fetches[i] = "inflight"
    /\ \E outcome \in IF Len(lcall.contracts) > MaxLiveList THEN {"ok"}
                        ELSE SingleOutcomes :
          IF outcome = "ok"
          THEN lcall' = [lcall EXCEPT !.fetches[i] = "ok"]
          ELSE IF outcome \in CaughtByFetchOne
          THEN lcall' = [lcall EXCEPT !.fetches[i] = "none"]
          ELSE lcall' = [lcall EXCEPT !.fetches[i] = "raised", !.pc = "raised"]
    /\ UNCHANGED <<coreVars, startVars, http, hcall, live_run, adapterVars>>

\* gather returned every result: the map of the contracts whose result is
\* not None
LiveParallelReturn ==
    /\ lcall.pc = "gather"
    /\ \A i \in DOMAIN lcall.fetches : lcall.fetches[i] \in {"ok", "none"}
    /\ lcall' = [lcall EXCEPT !.pc = "returned",
                              !.result = {lcall.contracts[i] :
                                            i \in {j \in DOMAIN lcall.fetches :
                                                      lcall.fetches[j] = "ok"}}]
    /\ UNCHANGED <<coreVars, startVars, http, hcall, live_run, adapterVars>>

(***************************************************************************)
(* ExchangeOrchestrator.update_live as the source has it                   *)
(***************************************************************************)
NoLiveRun == [invoked |-> FALSE, active |-> {}, collect_live_ran |-> FALSE,
              fetch_live_calls |-> 0, stored |-> {}, logged |-> ""]

\* parameters of collect_live without a default, and the arguments
\* update_live passes
CollectLiveParameters ==
    <<"exchange_adapter", "section_name", "uow_factory", "assemble_symbol", "semaphore">>
UpdateLiveArguments == <<"exchange_adapter", "section_name", "uow_factory">>

\* update_live(): "await collect_live(adapter, section_name, uow_factory)"
\* inside try / except Exception.  Binding the arguments fails when a
\* parameter is left without a value (TypeError), before the body of
\* collect_live runs; the exception is logged and update_live returns.
UpdateLiveInvoke ==
    /\ lpc = "idle"
    /\ LiveSampling
    /\ IF Len(UpdateLiveArguments) < Len(CollectLiveParameters)
       THEN live_run' = [NoLiveRun EXCEPT
                            !.invoked = TRUE,
                            !.active = {c.id : c \in get_active_by_section(contracts, adapter)},
                            !.logged = "TypeError"]
       ELSE live_run' = [NoLiveRun EXCEPT
                            !.invoked = TRUE,
                            !.active = {c.id : c \in get_active_by_section(contracts, adapter)},
                            !.collect_live_ran = TRUE]
    /\ UNCHANGED <<coreVars, startVars, http, hcall, lcall, adapterVars>>

(***************************************************************************)
(* ParadexExchange                                                         *)
(***************************************************************************)
PARADEX_FETCH_STEP == 6
\* the venue's rates are 8-hour rates: "/ 8"
PeriodHours == 8
\* "len(cached_rates) >= 50"
CacheThreshold == 50

\* instants of the Paradex clock and of the venue's raw records: every hour
\* boundary and the middle of every hour
PdxInstants == {h * SecondsPerHour + o :
                   h \in 0..(MaxPdxHour + 1), o \in {0, SecondsPerHour \div 2}}
PdxRates == {PeriodHours, 3 * PeriodHours}
RawRecords == [created_at : PdxInstants, funding_rate : PdxRates]

\* datetime.replace(minute=0, second=0, microsecond=0)
FloorHour(t) == (t \div SecondsPerHour) * SecondsPerHour

RECURSIVE SumSeq(_)
SumSeq(l) == IF l = <<>> THEN 0 ELSE Head(l) + SumSeq(Tail(l))

RECURSIVE hourly_group(_, _)
\* _aggregate_to_hourly: hourly_groups[hour_end_ms], the rates of the records
\* whose hour ends at hour_end, in the order of the list
hourly_group(raw_records, hour_end) ==
    IF raw_records = <<>> THEN <<>>
    ELSE (IF FloorHour(Head(raw_records).created_at) + SecondsPerHour = hour_end
          THEN <<Head(raw_records).funding_rate>> ELSE <<>>)
         \o hourly_group(Tail(raw_records), hour_end)

\* the hourly rate "sum(rates) / len(rates) / 8" as the fraction it is
HourlyRate(total, count) == [num |-> total, den |-> PeriodHours * count]

\* mutant: a bucket is labelled with the start of its hour
aggregate_to_hourly_start_label(raw_records) ==
    LET keys == sorted({FloorHour(raw_records[i].created_at) :
                           i \in 1..Len(raw_records)})
    IN [j \in 1..Len(keys) |->
           [timestamp |-> keys[j],
            rate |-> HourlyRate(SumSeq(hourly_group(raw_records, keys[j] + SecondsPerHour)),
                                Len(hourly_group(raw_records, keys[j] + SecondsPerHour)))]]

\* ParadexExchange._aggregate_to_hourly
aggregate_to_hourly(raw_records) ==
    LET keys == sorted({FloorHour(raw_records[i].created_at) + SecondsPerHour :
                           i \in 1..Len(raw_records)})
    IN [j \in 1..Len(keys) |->
           [timestamp |-> keys[j],
            rate |-> HourlyRate(SumSeq(hourly_group(raw_records, keys[j])),
                                Len(hourly_group(raw_records, keys[j])))]]

\* GET /funding/data with start_at and end_at: the venue's records inside
\* the window, both bounds included
FundingData(raw, start_at, end_at) ==
    SetToSeq({r \in raw : start_at <= r.created_at /\ r.created_at <= end_at})

\* ParadexExchange.fetch_history_before
paradex_fetch_history_before(raw, before_timestamp, clock) ==
    LET end_time == FloorHour(IF before_timestamp # NoTime THEN before_timestamp ELSE clock)
        start_time == end_time - PARADEX_FETCH_STEP * SecondsPerHour
        raw_records == FundingData(raw, start_time, end_time)
    IN IF raw_records = <<>> THEN <<>> ELSE aggregate_to_hourly(raw_records)

\* ParadexExchange.fetch_history_after: hours_to_fetch, each hour by its end
hours_to_fetch(after_timestamp, clock) ==
    LET start == FloorHour(after_timestamp)
        n == (FloorHour(clock) - start) \div SecondsPerHour
    IN [k \in 1..(IF n > 0 THEN n ELSE 0) |-> start + k * SecondsPerHour]

\* _live_cache[contract_id]: hour start -> the samples of that hour, kept as
\* their number and their sum
NoCache == [h \in {} |-> [n |-> 0, total |-> 0]]
CacheWithout(cache, h) == [k \in DOMAIN cache \ {h} |-> cache[k]]
CacheAppend(cache, h, raw_rate) ==
    [k \in DOMAIN cache \cup {h} |->
        IF k = h
        THEN (IF h \in DOMAIN cache
              THEN [n |-> cache[h].n + 1, total |-> cache[h].total + raw_rate]
              ELSE [n |-> 1, total |-> raw_rate])
        ELSE cache[k]]
Samples(cache, h) == IF h \in DOMAIN cache THEN cache[h].n ELSE 0

NoPdx == [pc |-> "none", kind |-> "", now |-> 0, cutoff |-> NoTime, raw |-> {},
          cache |-> NoCache, cache0 |-> NoCache, hours |-> <<>>, visited |-> {},
          api_calls |-> {}, records |-> <<>>, points |-> <<>>]

\* caches the live sampler may have left: per hour no bucket, or one just
\* below or at the threshold
PdxCaches ==
    UNION {[H -> {[n |-> c, total |-> c * 2 * PeriodHours] :
                     c \in {CacheThreshold - 1, CacheThreshold}}] :
              H \in SUBSET {h * SecondsPerHour : h \in 0..MaxPdxHour}}
\* what the venue holds: up to MaxRaw records
PdxVenues == {R \in SUBSET [created_at : PdxInstants, funding_rate : {PeriodHours}] :
                 Cardinality(R) <= MaxRaw}

\* _aggregate_to_hourly is applied to a list of raw records
ParadexAggregate ==
    /\ pdx.pc = "none"
    /\ \E l \in UNION {[1..n -> RawRecords] : n \in 0..MaxRaw} :
          pdx' = [NoPdx EXCEPT !.pc = "returned", !.kind = "aggregate",
                               !.records = l, !.points = aggregate_to_hourly(l)]
    /\ UNCHANGED <<coreVars, startVars, http, hcall, lcall, live_run, lighter, xyz>>

\* fetch_history_before is called, with a cutoff or with None, and returns
ParadexBeforeCall ==
    /\ pdx.pc = "none"
    /\ \E clock \in PdxInstants : \E raw \in PdxVenues :
       \E before_timestamp \in {NoTime} \cup {t - OneSecond : t \in PdxInstants \ {0}} :
          /\ before_timestamp <= clock
          /\ \A r \in raw : r.created_at <= clock
          /\ pdx' = [NoPdx EXCEPT !.pc = "returned", !.kind = "before", !.now = clock,
                                  !.cutoff = before_timestamp, !.raw = raw,
                                  !.points = paradex_fetch_history_before(
                                                 raw, before_timestamp, clock)]
    /\ UNCHANGED <<coreVars, startVars, http, hcall, lcall, live_run, lighter, xyz>>

\* fetch_history_after is called: the hours to fetch are listed
ParadexAfterCall ==
    /\ pdx.pc = "none"
    /\ \E clock \in PdxInstants : \E raw \in PdxVenues : \E cache \in PdxCaches :
       \E after_timestamp \in {t + OneSecond : t \in PdxInstants} :
          /\ after_timestamp <= clock
          /\ \A r \in raw : r.created_at <= clock
          /\ \A h \in DOMAIN cache : h <= clock
          /\ LET hours == hours_to_fetch(after_timestamp, clock)
             IN pdx' = [NoPdx EXCEPT !.pc = IF hours = <<>> THEN "returned" ELSE "after",
                                     !.kind = "after", !.now = clock,
                                     !.cutoff = after_timestamp, !.raw = raw,
                                     !.cache = cache, !.cache0 = cache,
                                     !.hours = hours]
    /\ UNCHANGED <<coreVars, startVars, http, hcall, lcall, live_run, lighter, xyz>>

\* mutant: the bucket is removed only when its samples are used
ParadexVisitHourKeepsUnused ==
    /\ pdx.pc = "after"
    /\ pdx.hours # <<>>
    /\ LET hour_end == Head(pdx.hours)
           hour_start == hour_end - SecondsPerHour
           cached == Samples(pdx.cache, hour_start)
       IN IF cached >= CacheThreshold
          THEN pdx' = [pdx EXCEPT
                          !.cache = CacheWithout(pdx.cache, hour_start),
                          !.hours = Tail(pdx.hours),
                          !.visited = @ \cup {hour_start},
                          !.points = Append(@, [timestamp |-> hour_end,
                                                rate |-> HourlyRate(pdx.cache[hour_start].total,
                                                                    cached)])]
          ELSE LET raw_records == FundingData(pdx.raw, hour_start, hour_end)
               IN pdx' = [pdx EXCEPT
                             !.hours = Tail(pdx.hours),
                             !.visited = @ \cup {hour_start},
                             !.api_calls = @ \cup {hour_start},
                             !.points = IF raw_records = <<>> THEN @
                                        ELSE @ \o aggregate_to_hourly(raw_records)]
    /\ UNCHANGED <<coreVars, startVars, http, hcall, lcall, live_run, lighter, xyz>>

\* fetch_history_after, one turn of "for hour_end in hours_to_fetch": the
\* bucket is popped; with 50 samples or more the cached average is used,
\* otherwise the hour is fetched from the API and aggregated
ParadexVisitHour ==
    /\ pdx.pc = "after"
    /\ pdx.hours # <<>>
    /\ LET hour_end == Head(pdx.hours)
           hour_start == hour_end - SecondsPerHour
           cached == Samples(pdx.cache, hour_start)
       IN IF cached >= CacheThreshold
          THEN pdx' = [pdx EXCEPT
                          !.cache = CacheWithout(pdx.cache, hour_start),
                          !.hours = Tail(pdx.hours),
                          !.visited = @ \cup {hour_start},
                          !.points = Append(@, [timestamp |-> hour_end,
                                                rate |-> HourlyRate(pdx.cache[hour_start].total,
                                                                    cached)])]
          ELSE LET raw_records == FundingData(pdx.raw, hour_start, hour_end)
               IN pdx' = [pdx EXCEPT
                             !.cache = CacheWithout(pdx.cache, hour_start),
                             !.hours = Tail(pdx.hours),
                             !.visited = @ \cup {hour_start},
                             !.api_calls = @ \cup {hour_start},
                             !.points = IF raw_records = <<>> THEN @
                                        ELSE @ \o aggregate_to_hourly(raw_records)]
    /\ UNCHANGED <<coreVars, startVars, http, hcall, lcall, live_run, lighter, xyz>>

\* fetch_history_after returns all_points
ParadexAfterReturn ==
    /\ pdx.pc = "after"
    /\ pdx.hours = <<>>
    /\ pdx' = [pdx EXCEPT !.pc = "returned"]
    /\ UNCHANGED <<coreVars, startVars, http, hcall, lcall, live_run, lighter, xyz>>

\* ---- one Paradex contract under the scheduled jobs ----
\* pdx holds the clock, the venue's raw records, the contract's bucket of
\* _live_cache, its synced flag and the timestamps of its stored points

\* the records the venue returns at the given clock
Visible(raw, clock) == {r \in raw : r.created_at <= clock}

RECURSIVE after_pass(_, _, _)
\* fetch_history_after's loop over hours_to_fetch: the cache with every
\* visited bucket popped, and the timestamps of all_points
after_pass(hours, cache, raw) ==
    IF hours = <<>> THEN [cache |-> cache, stamps |-> {}]
    ELSE LET hour_end == Head(hours)
             hour_start == hour_end - SecondsPerHour
             raw_records == FundingData(raw, hour_start, hour_end)
             hour_points == aggregate_to_hourly(raw_records)
             found == IF Samples(cache, hour_start) >= CacheThreshold THEN {hour_end}
                      ELSE {hour_points[i].timestamp : i \in 1..Len(hour_points)}
             rest == after_pass(Tail(hours), CacheWithout(cache, hour_start), raw)
         IN [cache |-> rest.cache, stamps |-> found \cup rest.stamps]

\* datetime.now() moves into the next hour
PdxJobTick ==
    /\ pdx.pc = "job"
    /\ pdx.now + SecondsPerHour <= MaxJobHour * SecondsPerHour + SecondsPerHour \div 2
    /\ pdx' = [pdx EXCEPT !.now = @ + SecondsPerHour]
    /\ UNCHANGED <<coreVars, startVars, http, hcall, lcall, live_run, lighter, xyz>>

\* fetch_live -> _fetch_live_single: the newest record's rate is appended
\* to the bucket of the current hour
PdxLiveSample ==
    /\ pdx.pc = "job"
    /\ Visible(pdx.raw, pdx.now) # {}
    /\ Samples(pdx.cache, FloorHour(pdx.now)) < MaxSamples
    /\ pdx' = [pdx EXCEPT !.cache = CacheAppend(@, FloorHour(pdx.now), PeriodHours)]
    /\ UNCHANGED <<coreVars, startVars, http, hcall, lcall, live_run, lighter, xyz>>

\* sync_contract, one batch: an empty batch marks the contract synced
PdxSyncBatch ==
    /\ pdx.pc = "job"
    /\ ~pdx.synced
    /\ LET before_timestamp ==
               IF pdx.hist = {} THEN NoTime
               ELSE (CHOOSE t \in pdx.hist : \A u \in pdx.hist : t <= u) - OneSecond
           points == paradex_fetch_history_before(
                         Visible(pdx.raw, pdx.now), before_timestamp, pdx.now)
       IN IF points = <<>>
          THEN pdx' = [pdx EXCEPT !.synced = TRUE]
          ELSE pdx' = [pdx EXCEPT
                          !.hist = @ \cup {points[i].timestamp : i \in 1..Len(points)}]
    /\ UNCHANGED <<coreVars, startVars, http, hcall, lcall, live_run, lighter, xyz>>

\* update_contract of a synced contract: nothing without a stored point or
\* before an hour has passed since the newest; otherwise fetch_history_after
\* and the insert of its points
PdxUpdateContract ==
    /\ pdx.pc = "job"
    /\ pdx.synced
    /\ IF pdx.hist = {} THEN UNCHANGED pdx
       ELSE LET newest == CHOOSE t \in pdx.hist : \A u \in pdx.hist : u <= t
                after_timestamp == newest + OneSecond
                required_interval == 1 * SecondsPerHour
            IN IF pdx.now - after_timestamp < required_interval THEN UNCHANGED pdx
               ELSE LET pass == after_pass(hours_to_fetch(after_timestamp, pdx.now),
                                           pdx.cache, Visible(pdx.raw, pdx.now))
                    IN pdx' = [pdx EXCEPT !.cache = pass.cache,
                                          !.hist = @ \cup pass.stamps]
    /\ UNCHANGED <<coreVars, startVars, http, hcall, lcall, live_run, lighter, xyz>>

(***************************************************************************)
(* LighterExchange                                                         *)
(***************************************************************************)
\* self._asset_to_id, a dict from asset name to market id; empty after __init__
NoAssetToId == [a \in {} |-> 0]
NoLighter == [asset_to_id |-> NoAssetToId]

\* market["market_id"]: the id the venue gives an asset
MarketId(a) == IF a = "BTC" THEN 1 ELSE 2

\* LighterExchange._format_symbol: str(self._asset_to_id[contract.asset.name]),
\* a KeyError when the asset is not in the dict
LighterFormatSymbol(asset_name) ==
    IF asset_name \in DOMAIN lighter.asset_to_id
    THEN ToString(lighter.asset_to_id[asset_name])
    ELSE "KeyError"

\* LighterExchange.get_contracts returns: one ContractInfo per listed perp,
\* and the dict built from this response replaces the remembered one
LighterGetContractsReturn ==
    /\ upc = "r_call"
    /\ adapter = "lighter"
    /\ reg' = [reg EXCEPT !.api_contracts =
                              {[asset_name |-> x.asset, quote |-> "USD",
                                funding_interval |-> 1] : x \in listing},
                          !.listed = {<<x.asset, "USD">> : x \in listing}]
    /\ lighter' = [lighter EXCEPT !.asset_to_id =
                                      [a \in {x.asset : x \in listing} |-> MarketId(a)]]
    /\ upc' = "r_got"
    /\ inflight' = inflight \ {UpdateTask}
    /\ UNCHANGED <<tasks, uow>>
    /\ UNCHANGED <<envVars, dbVars, mvVars, liveVars, schedVars>>
    /\ UNCHANGED <<cfg, boot, http, hcall, lcall, live_run, pdx, xyz>>

\* sync_contract calls fetch_history_before, whose _fetch_history formats
\* the symbol of a contract the adapter knows
LighterSyncReadOldest(id) ==
    /\ adapter = "lighter"
    /\ id \in DOMAIN tasks
    /\ LighterFormatSymbol(tasks[id].c.asset_name) # "KeyError"
    /\ SyncReadOldest(id)

\* the same call for a contract whose asset is not in the dict: the KeyError
\* leaves sync_contract and process_contract logs it
LighterKeyError(id) ==
    /\ adapter = "lighter"
    /\ id \in DOMAIN tasks
    /\ tasks[id].pc = "s_read"
    /\ LighterFormatSymbol(tasks[id].c.asset_name) = "KeyError"
    /\ TaskRaise(id)

\* ---- hyperliquid-xyz: the symbol remap ----
\* a name is the sequence of its colon-separated parts: "xyz:GOLD" is
\* <<"xyz", "GOLD">> and "GOLD" is <<"GOLD">>

\* _SYMBOL_MAP: API symbol -> database symbol
SYMBOL_MAP(asset_part) ==
    CASE asset_part = "GOLD" -> "XAU"
      [] asset_part = "SILVER" -> "XAG"
      [] asset_part = "PLATINUM" -> "XPT"
      [] asset_part = "COPPER" -> "XCU"
      [] asset_part = "ALUMINIUM" -> "XAL"
      [] OTHER -> asset_part

\* _REVERSE_MAP: database symbol -> API symbol
REVERSE_MAP(db_symbol) ==
    CASE db_symbol = "XAU" -> "GOLD"
      [] db_symbol = "XAG" -> "SILVER"
      [] db_symbol = "XPT" -> "PLATINUM"
      [] db_symbol = "XCU" -> "COPPER"
      [] db_symbol = "XAL" -> "ALUMINIUM"
      [] OTHER -> db_symbol

\* contract.asset_name.split(":")[-1]
AssetPart(name) == name[Len(name)]

\* the stored asset name get_contracts gives a venue name
XyzMappedName(name) == SYMBOL_MAP(AssetPart(name))

\* _format_symbol: f"xyz:{xyz_symbol}"
XyzFormatSymbol(db_symbol) == <<"xyz", REVERSE_MAP(db_symbol)>>

\* the asset parts a venue may list: the five remapped metals, the database
\* symbols of two of them, and two assets the map does not mention
XyzAssetParts ==
    {"GOLD", "SILVER", "PLATINUM", "COPPER", "ALUMINIUM", "XAU", "XAG",
     "TSLA", "EUR"}

\* venue names, with or without the xyz: prefix
XyzVenueNames ==
    {<<part>> : part \in XyzAssetParts} \cup
    {<<"xyz", part>> : part \in XyzAssetParts}

NoXyz ==
    [pc |-> "none", a |-> <<"GOLD">>, b |-> <<"GOLD">>,
     stored_a |-> "", stored_b |-> "", symbol_a |-> << >>, symbol_b |-> << >>]

\* the venue lists two names a and b
XyzList ==
    /\ xyz.pc = "none"
    /\ \E a \in XyzVenueNames, b \in XyzVenueNames :
           xyz' = [NoXyz EXCEPT !.pc = "listed", !.a = a, !.b = b]
    /\ UNCHANGED <<coreVars, startVars, http, hcall, lcall, live_run, pdx, lighter>>

\* get_contracts maps both names to the asset names it stores
XyzGetContracts ==
    /\ xyz.pc = "listed"
    /\ xyz' = [xyz EXCEPT !.pc = "mapped",
                          !.stored_a = XyzMappedName(xyz.a),
                          !.stored_b = XyzMappedName(xyz.b)]
    /\ UNCHANGED <<coreVars, startVars, http, hcall, lcall, live_run, pdx, lighter>>

\* _format_symbol of the two contracts
XyzFormat ==
    /\ xyz.pc = "mapped"
    /\ xyz' = [xyz EXCEPT !.pc = "formatted",
                          !.symbol_a = XyzFormatSymbol(xyz.stored_a),
                          !.symbol_b = XyzFormatSymbol(xyz.stored_b)]
    /\ UNCHANGED <<coreVars, startVars, http, hcall, lcall, live_run, pdx, lighter>>


\* neither startup nor a single adapter call is under way
AuxIdle ==
    /\ cfg = NoCfg /\ boot = NoBoot
    /\ http = NoHttp /\ hcall = NoHcall /\ lcall = NoLcall
    /\ live_run = NoLiveRun
    /\ pdx = NoPdx /\ lighter = NoLighter /\ xyz = NoXyz

(***************************************************************************)
(* Specifications                                                          *)
(***************************************************************************)
InitCommon ==
    /\ now = FirstInstant
    /\ venue = {}
    /\ listing \in Listings
    /\ sections = {} /\ quotes = {} /\ assets = {}
    /\ contracts = {} /\ hist = {} /\ live = {}
    /\ mv_pending = FALSE /\ mv_last_signal_time = NoTime
    /\ mv_pc = "idle" /\ mv_ticked = FALSE /\ mv_log = NoMvLog
    /\ upc = "idle" /\ reg = NoReg /\ tasks = <<>>
    /\ lpc = "idle" /\ ltask = NoLive
    /\ uow = {} /\ inflight = {}
    /\ concurrency_limit \in ConcurrencyLimits
    /\ semaphore = concurrency_limit
    /\ escaped = {}
    /\ scope = [j \in Jobs |-> NoScope]
    /\ probes = NoProbes
    /\ AuxIdle

\* the backfill / update / live model: one KuCoin perpetual stays listed
\* while time passes and the venue settles funding
Init ==
    /\ InitCommon
    /\ adapter = "kucoin"
    /\ listing = {[asset |-> "BTC", quote |-> "USDT", interval |-> 8]}
    /\ concurrency_limit = DefaultConcurrencyLimit

RegisterStep ==
    \/ UpdateStart
    \/ RegisterEnter
    \/ RegisterCommit
    \/ RegisterSignal
    \/ UpdateRead
    \/ UpdateFinish

TaskStep ==
    \/ \E id \in DOMAIN tasks : TaskAcquire(id)
    \/ \E id \in DOMAIN tasks : SyncReadOldest(id)
    \/ \E id \in DOMAIN tasks : SyncFetched(id)
    \/ \E id \in DOMAIN tasks : SyncMarkCommit(id)
    \/ \E id \in DOMAIN tasks : UpdateCheck(id)

HistoryStep ==
    \/ \E id \in DOMAIN tasks : SyncInsertCommit(id)
    \/ \E id \in DOMAIN tasks : UpdateFetched(id)
    \/ \E id \in DOMAIN tasks : UpdateInsertCommit(id)

LiveStep ==
    \/ LiveStart
    \/ LiveFetched
    \/ LiveInsertCommit
    \/ LiveRaise

\* one whole update() of the KuCoin orchestrator, nothing raising
UpdateFlow ==
    \/ KucoinGetContractsReturn
    \/ RegisterStep
    \/ TaskStep
    \/ HistoryStep

Next ==
    \/ Tick
    \/ VenueSettle
    \/ UpdateFlow
    \/ RegisterRaise
    \/ \E id \in DOMAIN tasks : TaskRaise(id)
    \/ LiveStep

Spec == Init /\ [][Next]_vars

\* the same model with neither the adapter nor the database failing, the
\* clock advancing and the scheduler firing update() again and again
FairNext ==
    \/ Tick
    \/ VenueSettle
    \/ UpdateFlow

FairSpec == Init /\ [][FairNext]_vars /\ WF_vars(Tick) /\ WF_vars(UpdateFlow)

\* the registry model: the venue lists, delists and relists two perpetuals
\* between and during runs; the clock stands still and no funding is settled
RegistryInit == InitCommon /\ adapter = "kucoin"

RegistryNext ==
    \/ VenueRelist
    \/ KucoinGetContractsReturn
    \/ RegisterEmpty
    \/ RegisterStep
    \/ RegisterRaise
    \/ UpdateReadRaise
    \/ TaskStep
    \/ \E id \in DOMAIN tasks : TaskRaise(id)

RegistrySpec == RegistryInit /\ [][RegistryNext]_vars

\* the registry model with a unit of work whose exit may raise after the
\* commit
RegisterFailNext ==
    \/ RegistryNext
    \/ RegisterRaiseDuringClose

RegisterFailSpec == RegistryInit /\ [][RegisterFailNext]_vars

\* the registry model with the event loop running every task that can run
FairRegistrySpec ==
    /\ RegistryInit /\ [][RegistryNext]_vars
    /\ WF_vars(TaskStep \/ UpdateFinish)

\* the registry model with the Aster adapter
AsterInit == InitCommon /\ adapter = "aster"

AsterNext ==
    \/ VenueRelist
    \/ AsterGetContractsReturn
    \/ RegisterEmpty
    \/ RegisterStep
    \/ RegisterRaise
    \/ UpdateReadRaise
    \/ TaskStep
    \/ \E id \in DOMAIN tasks : TaskRaise(id)

AsterSpec == AsterInit /\ [][AsterNext]_vars

\* the refresher model: registries signal at any moment, the check runs once
\* a second, a REFRESH succeeds or fails
\* nothing stored, nothing running
CoreIdle ==
    /\ now = 0
    /\ venue = {}
    /\ listing = {}
    /\ adapter = "kucoin"
    /\ sections = {} /\ quotes = {} /\ assets = {}
    /\ contracts = {} /\ hist = {} /\ live = {}
    /\ mv_pending = FALSE /\ mv_last_signal_time = NoTime
    /\ mv_pc = "idle" /\ mv_ticked = FALSE /\ mv_log = NoMvLog
    /\ upc = "idle" /\ reg = NoReg /\ tasks = <<>>
    /\ lpc = "idle" /\ ltask = NoLive
    /\ uow = {} /\ inflight = {}
    /\ concurrency_limit = DefaultConcurrencyLimit
    /\ semaphore = concurrency_limit
    /\ escaped = {}
    /\ scope = [j \in Jobs |-> NoScope]
    /\ probes = NoProbes

MvInit == CoreIdle /\ AuxIdle

\* nothing is running: the state a single call or the startup begins in
IdleInit == CoreIdle /\ AuxIdle

MvNext ==
    \/ MvSignal
    \/ MvTick
    \/ MvCheck
    \/ MvRefreshOk
    \/ MvRefreshFail

MvSpec == MvInit /\ [][MvNext]_vars

\* the refresher model with the clock advancing, the check firing every
\* second and a REFRESH that is executed again and again eventually succeeding
FairMvSpec ==
    /\ MvInit /\ [][MvNext]_vars
    /\ WF_vars(MvTick) /\ WF_vars(MvCheck)
    /\ WF_vars(MvRefreshOk \/ MvRefreshFail) /\ SF_vars(MvRefreshOk)

\* the unit-of-work model: each job enters and leaves units of work, whose
\* body, commit or rollback may raise or be cancelled; the event loop runs
\* what can run
UowNext ==
    \/ \E j \in Jobs : UowEnter(j)
    \/ \E j \in Jobs : \E e \in BodyEndings : UowBodyEnds(j, e)
    \/ \E j \in Jobs : \E r \in AwaitResults : UowTransactionEnds(j, r)
    \/ \E j \in Jobs : UowCloseDone(j)
    \/ \E j \in Jobs : UowCancelDuringClose(j)

UowSpec ==
    /\ MvInit /\ [][UowNext]_vars
    /\ \A j \in Jobs : WF_vars(\E r \in AwaitResults : UowTransactionEnds(j, r))
    /\ \A j \in Jobs : WF_vars(UowCloseDone(j))

\* the throttling model: the Aster orchestrator, whose section holds one
\* contract registered by an earlier run, discovers the venue's perpetuals
\* request by request while the live job fires
ProbeAssets == {"BTC", "ETH", "SOL", "XRP", "BNB", "ADA", "DOGE", "TRX", "LTC",
                "DOT", "AVAX"}
StoredContract ==
    [Contract({}, "BTC", "USDT", "aster", 8, FALSE) EXCEPT !.synced = TRUE]

ThrottleInit ==
    /\ now = FirstInstant
    /\ venue = {}
    /\ listing = {[asset |-> a, quote |-> "USDT", interval |-> 8] : a \in ProbeAssets}
    /\ adapter = "aster"
    /\ sections = {"aster"} /\ quotes = {"USDT"} /\ assets = {"BTC"}
    /\ contracts = {StoredContract} /\ hist = {} /\ live = {}
    /\ mv_pending = FALSE /\ mv_last_signal_time = NoTime
    /\ mv_pc = "idle" /\ mv_ticked = FALSE /\ mv_log = NoMvLog
    /\ upc = "idle" /\ reg = NoReg /\ tasks = <<>>
    /\ lpc = "idle" /\ ltask = NoLive
    /\ uow = {} /\ inflight = {}
    /\ concurrency_limit = DefaultConcurrencyLimit
    /\ semaphore = concurrency_limit
    /\ escaped = {}
    /\ scope = [j \in Jobs |-> NoScope]
    /\ probes = NoProbes
    /\ AuxIdle

\* ExchangeOrchestrator.update_live with the live collection running as
\* specified; in the source the call hands collect_live three arguments for
\* its five parameters and raises before any request is made
update_live == LiveStep

ThrottleNext ==
    \/ UpdateStart
    \/ AsterListReturn
    \/ \E k \in DOMAIN probes : AsterProbeAcquire(k)
    \/ \E k \in DOMAIN probes : AsterProbeReturn(k)
    \/ AsterProbesGathered
    \/ RegisterEmpty
    \/ UpdateRead
    \/ \E id \in DOMAIN tasks : TaskAcquire(id)
    \/ \E id \in DOMAIN tasks : UpdateCheck(id)
    \/ UpdateFinish
    \/ update_live

ThrottleSpec == ThrottleInit /\ [][ThrottleNext]_vars

\* the startup model: the process is started with any command line and
\* environment, builds its runtime configuration, bootstraps the scheduler
\* from it and starts it
IntOptions == {NoneInt} \cup ((0 - 1)..MaxInstances)
StartupInit ==
    /\ CoreIdle
    /\ boot = NoBoot
    /\ http = NoHttp /\ hcall = NoHcall /\ lcall = NoLcall
    /\ live_run = NoLiveRun
    /\ pdx = NoPdx /\ lighter = NoLighter /\ xyz = NoXyz
    /\ cfg \in [phase : {"start"},
                args : [exchanges : ExchangeSpecs, instance_id : IntOptions,
                        total_instances : IntOptions \ {0 - 1}],
                settings : [exchanges : {NoneSpec, [is_none |-> FALSE, items |-> <<1>>]},
                            instance_id : (0 - 1)..MaxInstances,
                            total_instances : 0..MaxInstances],
                resolved : {<<>>}, config : {NoConfig}]

StartupNext ==
    \/ build_runtime_config
    \/ BootstrapConfigured
    \/ BootstrapRegister
    \/ BootstrapReturn
    \/ SchedulerStart

StartupSpec == StartupInit /\ [][StartupNext]_vars

\* the fan-out model: bootstrap is called with a list of 1..MaxFanout
\* exchanges and the scheduler is started
BootstrapDirect ==
    /\ cfg.phase = "none"
    /\ boot.pc = "none"
    /\ \E n \in 1..MaxFanout : bootstrap_enter(SomeList([k \in 1..n |-> k]))
    /\ UNCHANGED <<coreVars, cfg, callVars>>

FanoutNext ==
    \/ BootstrapDirect
    \/ BootstrapRegister
    \/ BootstrapReturn
    \/ SchedulerStart

FanoutSpec == IdleInit /\ [][FanoutNext]_vars

\* the retry model: one get / post call whose attempts succeed or fail in
\* any way; the event loop runs what can run
HttpNext ==
    \/ HttpCall
    \/ HttpAttemptEnds
    \/ HttpWaitEnds

HttpSpec == IdleInit /\ [][HttpNext]_vars /\ WF_vars(HttpNext)

\* the history-call model: one default fetch_history_before or
\* fetch_history_after call of an adapter against any venue
HistoryCallNext ==
    \/ HistoryCall
    \/ HistoryReturn

HistoryCallSpec == IdleInit /\ [][HistoryCallNext]_vars

\* the batch live model: one fetch_live call of a batch adapter with any
\* list of contracts against any all-markets response
LiveBatchNext ==
    \/ LiveBatchCall
    \/ LiveBatchReturn

LiveBatchSpec == IdleInit /\ [][LiveBatchNext]_vars

\* the parallel live model: one fetch_live call of OKX, each single fetch
\* ending in any way
LiveParallelNext ==
    \/ LiveParallelCall
    \/ \E i \in DOMAIN lcall.fetches : LiveSingleAcquire(i)
    \/ \E i \in DOMAIN lcall.fetches : LiveSingleEnds(i)
    \/ LiveParallelReturn

LiveParallelSpec == IdleInit /\ [][LiveParallelNext]_vars

\* the backfill model: the venue holds a finite history, spaced so that one
\* KuCoin window does not cover it, when the orchestrator first meets the
\* perpetual; update() runs again and again
BackfillTimes == {BackfillSpacing * k * SecondsPerHour : k \in 1..MaxBackfill}
BackfillInit ==
    /\ now = BackfillSpacing * MaxBackfill * SecondsPerHour + OneSecond
    /\ \E T \in SUBSET BackfillTimes : venue = {[timestamp |-> t, rate |-> 1] : t \in T}
    /\ listing = {[asset |-> "BTC", quote |-> "USDT", interval |-> 8]}
    /\ adapter = "kucoin"
    /\ sections = {} /\ quotes = {} /\ assets = {}
    /\ contracts = {} /\ hist = {} /\ live = {}
    /\ mv_pending = FALSE /\ mv_last_signal_time = NoTime
    /\ mv_pc = "idle" /\ mv_ticked = FALSE /\ mv_log = NoMvLog
    /\ upc = "idle" /\ reg = NoReg /\ tasks = <<>>
    /\ lpc = "idle" /\ ltask = NoLive
    /\ uow = {} /\ inflight = {}
    /\ concurrency_limit = DefaultConcurrencyLimit
    /\ semaphore = concurrency_limit
    /\ escaped = {}
    /\ scope = [j \in Jobs |-> NoScope]
    /\ probes = NoProbes
    /\ AuxIdle

\* update() with nothing raising; the venue settles nothing new, so
\* update_contract never has a batch to store
BackfillFlow ==
    \/ KucoinGetContractsReturn
    \/ RegisterStep
    \/ TaskStep
    \/ \E id \in DOMAIN tasks : SyncInsertCommit(id)
    \/ \E id \in DOMAIN tasks : UpdateFetched(id)

BackfillNext == BackfillFlow

BackfillSpec == BackfillInit /\ [][BackfillNext]_vars /\ WF_vars(BackfillFlow)

\* the backfill model with the orchestrator's timeout: sync_contract may be
\* cancelled wherever it is suspended
ResumeNext ==
    \/ BackfillFlow
    \/ \E id \in DOMAIN tasks : SyncTimeout(id)
    \/ \E id \in DOMAIN tasks : SyncTimeoutDuringClose(id)

ResumeSpec == BackfillInit /\ [][ResumeNext]_vars /\ WF_vars(BackfillFlow)

\* the Paradex call model: one call of _aggregate_to_hourly,
\* fetch_history_before or fetch_history_after, on any clock, venue and cache
ParadexCallNext ==
    \/ ParadexAggregate
    \/ ParadexBeforeCall
    \/ ParadexAfterCall
    \/ ParadexVisitHour
    \/ ParadexAfterReturn

ParadexCallSpec == IdleInit /\ [][ParadexCallNext]_vars

\* the Lighter model: the registry model with the Lighter adapter, whose
\* backfill calls may time out
\* the Paradex job model: a contract just registered, not synced, with
\* nothing stored or cached; the venue has a record in the middle of some
\* hours; update() and update_live() run again and again as hours pass
PdxJobInit ==
    /\ CoreIdle
    /\ cfg = NoCfg /\ boot = NoBoot /\ http = NoHttp /\ hcall = NoHcall /\ lcall = NoLcall
    /\ live_run = NoLiveRun /\ lighter = NoLighter /\ xyz = NoXyz
    /\ \E H \in SUBSET (0..MaxJobHour) :
          pdx = [pc |-> "job", now |-> SecondsPerHour \div 2,
                 raw |-> {[created_at |-> h * SecondsPerHour + SecondsPerHour \div 2,
                           funding_rate |-> PeriodHours] : h \in H},
                 cache |-> NoCache, synced |-> FALSE, hist |-> {}]

PdxJobNext == PdxJobTick \/ PdxLiveSample \/ PdxSyncBatch \/ PdxUpdateContract

PdxJobSpec ==
    /\ PdxJobInit /\ [][PdxJobNext]_vars
    /\ WF_vars(PdxJobTick) /\ WF_vars(PdxSyncBatch) /\ WF_vars(PdxUpdateContract)

\* single calls of the hyperliquid-xyz adapter
XyzCallNext == XyzList \/ XyzGetContracts \/ XyzFormat

XyzCallSpec == IdleInit /\ [][XyzCallNext]_vars

LighterInit ==
    /\ InitCommon
    /\ adapter = "lighter"
    /\ concurrency_limit = DefaultConcurrencyLimit

LighterNext ==
    \/ VenueRelist
    \/ LighterGetContractsReturn
    \/ RegisterEmpty
    \/ RegisterStep
    \/ \E id \in DOMAIN tasks : TaskAcquire(id)
    \/ \E id \in DOMAIN tasks : LighterSyncReadOldest(id)
    \/ \E id \in DOMAIN tasks : LighterKeyError(id)
    \/ \E id \in DOMAIN tasks : SyncFetched(id)
    \/ \E id \in DOMAIN tasks : SyncMarkCommit(id)
    \/ \E id \in DOMAIN tasks : UpdateCheck(id)
    \/ \E id \in DOMAIN tasks : SyncTimeout(id)

LighterSpec == LighterInit /\ [][LighterNext]_vars

\* the live-job model: the KuCoin orchestrator registers and backfills its
\* perpetual while the scheduler fires update_live()
LiveJobNext ==
    \/ Tick
    \/ VenueSettle
    \/ UpdateFlow
    \/ UpdateLiveInvoke

LiveJobSpec == Init /\ [][LiveJobNext]_vars

(***************************************************************************)
(* Properties                                                              *)
(***************************************************************************)
StoredTimes(id) == {r.timestamp : r \in {x \in hist : x.contract_id = id}}
SyncedIds == {x.id : x \in {y \in contracts : y.synced}}

\* C1: no task holds an entered unit of work while it awaits an adapter call
\* that goes upstream (get_contracts, fetch_history_before,
\* fetch_history_after, fetch_live).
C1_NoUowAcrossUpstream == uow \cap inflight = {}

\* C2: in sync_contract, synced becomes true only in an iteration whose
\* fetch_history_before returned an empty list; a non-empty batch is stored
\* before the next read of the oldest timestamp; and sync_contract returns
\* normally only after synced = true is committed.
C2_BatchStoredBeforeRead ==
    \A id \in DOMAIN tasks :
        (tasks[id].op = "sync" /\ tasks[id].pc = "s_read") =>
            \A i \in 1..Len(tasks[id].points) :
                tasks[id].points[i].timestamp \in StoredTimes(id)
C2_ReturnsAfterSynced ==
    \A id \in DOMAIN tasks :
        (tasks[id].op = "sync" /\ tasks[id].pc = "done" /\ tasks[id].outcome = "ok") =>
            id \in SyncedIds
C2_SyncedOnlyOnEmpty ==
    \A id \in SyncedIds' \ SyncedIds :
        /\ id \in DOMAIN tasks
        /\ tasks[id].op = "sync"
        /\ tasks[id].points = <<>>
C2_SyncContract ==
    /\ [](C2_BatchStoredBeforeRead /\ C2_ReturnsAfterSynced)
    /\ [][C2_SyncedOnlyOnEmpty]_vars
\* witness: a backfill that stored at least one batch has returned normally
C2_Witness ==
    \E id \in DOMAIN tasks :
        /\ tasks[id].op = "sync" /\ tasks[id].pc = "done"
        /\ tasks[id].outcome = "ok" /\ tasks[id].total > 0
        /\ id \in SyncedIds

\* C3: whenever a contract has synced = true, the venue holds no settled
\* point for it that is older than the oldest stored point.
C3_SyncedReachedEarliest ==
    \A id \in SyncedIds :
        StoredTimes(id) # {} =>
            \A p \in venue : p.timestamp >= get_oldest_for_contract(hist, id)

\* C4: update_contract, for a contract with a newest stored point, returns 0
\* without calling the adapter exactly when now - newest.timestamp is less
\* than funding_interval hours, and calls fetch_history_after otherwise.
C4_SkipsExactlyWhenNotElapsed ==
    \A id \in DOMAIN tasks :
        (tasks[id].op = "update" /\ tasks[id].tnow # NoTime) =>
            LET newest == tasks[id].cutoff - OneSecond
            IN (tasks[id].outcome = "skipped") <=>
               (tasks[id].tnow - newest < tasks[id].c.funding_interval * SecondsPerHour)

\* C5: for a contract with synced = true, a settled point of the venue that
\* is newer than every stored point is eventually stored by some update(),
\* also when the contract was marked synced with no stored point.  (Points
\* settled too late for the interval to elapse inside the modelled period
\* are left out.)
C5_NewPointEventuallyStored ==
    \A id \in 1..Cardinality(Assets \X Quotes) : \A m \in Marks :
        (/\ id \in SyncedIds
         /\ \E p \in venue : p.timestamp = m
         /\ \A t \in StoredTimes(id) : t < m
         /\ m + 8 * SecondsPerHour + OneSecond <= LastInstant)
        ~> (m \in StoredTimes(id))

\* C6: after a successful register_contracts run with a non-empty fresh
\* list, every stored contract of the section whose (asset, quote) is not in
\* the list is deprecated and not returned by get_active_by_section, and
\* every listed contract is stored with deprecated = false.
C6_DeprecationFollowsListing ==
    (upc \in {"r_committed", "read"} /\ reg.api_contracts # {}) =>
        LET fresh == {<<c.asset_name, c.quote>> : c \in reg.api_contracts}
            active == get_active_by_section(contracts, reg.section_name)
        IN /\ \A c \in get_by_section(contracts, reg.section_name) :
                  <<c.asset_name, c.quote_name>> \notin fresh =>
                      (c.deprecated /\ c \notin active)
           /\ \A k \in fresh :
                  \E c \in active : <<c.asset_name, c.quote_name>> = k /\ ~c.deprecated
\* witness: a run has just committed with one contract deprecated and one active
C6_Witness ==
    /\ upc = "r_committed"
    /\ \E c \in contracts : c.deprecated
    /\ \E c \in contracts : ~c.deprecated

\* C7: register_contracts flips a stored contract to deprecated = true only
\* if the venue's listing, as served to get_contracts, no longer contains it.
C7_DeprecatedOnlyIfUnlisted ==
    [][\A x \in contracts : \A y \in contracts' :
          (x.id = y.id /\ ~x.deprecated /\ y.deprecated) =>
              <<x.asset_name, x.quote_name>> \notin reg.listed]_vars

\* C8: when get_contracts returns an empty list, register_contracts returns
\* without entering a unit of work: every table and the refresher's pending
\* and last_signal_time are unchanged.
C8_EmptyListTouchesNothing ==
    [][(upc = "r_got" /\ reg.api_contracts = {} /\ upc' # upc) =>
          /\ UNCHANGED <<sections, quotes, assets, contracts, hist, live>>
          /\ UNCHANGED <<mv_pending, mv_last_signal_time>>
          /\ UNCHANGED uow
          /\ upc' = "read"]_vars
\* witness: register_contracts returned on an empty list while the registry
\* holds a contract that is still marked active
C8_Witness ==
    /\ upc = "read"
    /\ reg.api_contracts = {}
    /\ \E c \in contracts : ~c.deprecated
    /\ mv_pending

\* C9: the contract table holds at most one row per (asset_name,
\* section_name, quote_name); a changed funding_interval updates that row in
\* place (same id) and no row ever disappears.
C9_UniqueKey ==
    \A x, y \in contracts : ContractKey(x) = ContractKey(y) => x = y
C9_IntervalFollowsListing ==
    upc = "r_committed" =>
        \A a \in reg.api_contracts : \A c \in contracts :
            ContractKey(c) = <<a.asset_name, reg.section_name, a.quote>> =>
                c.funding_interval = a.funding_interval
C9_RowsKeepIdentity ==
    \A x \in contracts :
        \E y \in contracts' : y.id = x.id /\ ContractKey(y) = ContractKey(x)
C9_OneRowPerKey ==
    /\ [](C9_UniqueKey /\ C9_IntervalFollowsListing)
    /\ [][C9_RowsKeepIdentity]_vars
\* witness: a run is about to commit a changed funding_interval for a stored row
C9_Witness ==
    /\ upc = "r_uow"
    /\ \E x \in contracts : \E y \in reg.staged.contracts :
          x.id = y.id /\ x.funding_interval # y.funding_interval

\* C10: bulk_insert_ignore is idempotent and first-write-wins, and across
\* sync_contract, update_contract and collect_live the stored rows of both
\* hypertables only grow: no key disappears and no stored rate changes.
ProbeBatches(t) ==
    LET rows == [contract_id : {1}, timestamp : {t}, funding_rate : Rates]
    IN {<<>>} \cup {<<a>> : a \in rows} \cup {<<a, b>> : a, b \in rows}
InsertIgnoreLaws(table, t) ==
    \A b \in ProbeBatches(t) :
        LET once == bulk_insert_ignore(table, b)
        IN /\ bulk_insert_ignore(once, b) = once
           /\ table \subseteq once
           /\ \A x, y \in once : PointKey(x) = PointKey(y) => x = y
           /\ \A i \in 1..Len(b) : \E x \in once : PointKey(x) = PointKey(b[i])
C10_InsertIgnore ==
    /\ [](InsertIgnoreLaws(hist, MarkHour(1) * SecondsPerHour)
          /\ InsertIgnoreLaws(live, FirstInstant))
    /\ [][hist \subseteq hist' /\ live \subseteq live']_vars
\* witness: collect_live is about to insert a sample whose key is already
\* stored with another rate
C10_Witness ==
    /\ lpc = "l_insert"
    /\ \E i \in 1..Len(ltask.records) : \E x \in live :
          /\ PointKey(x) = PointKey(ltask.records[i])
          /\ x.funding_rate # ltask.records[i].funding_rate

\* a step of check_and_refresh_if_needed from its entry
MvCheckStep == ~mv_ticked /\ mv_ticked' /\ mv_pc = "idle"
\* the debounce period has elapsed since the stored signal time
MvDue ==
    /\ mv_pending /\ mv_last_signal_time # NoTime
    /\ now - mv_last_signal_time >= debounce_seconds

\* C11: check_and_refresh_if_needed executes the REFRESH only if pending is
\* true and at least debounce_seconds have elapsed since last_signal_time; in
\* every other state it changes nothing; a successful REFRESH leaves pending
\* false and last_signal_time unset.
C11_RefreshOnlyWhenDue ==
    [][/\ (mv_pc = "idle" /\ mv_pc' = "refreshing") => MvDue
       /\ (MvCheckStep /\ ~MvDue) =>
              /\ mv_pc' = "idle"
              /\ UNCHANGED <<mv_pending, mv_last_signal_time, mv_log, dbVars, uow>>
       /\ (mv_pc = "refreshing" /\ mv_pc' = "idle" /\ mv_log'.result = "ok") =>
              (~mv_pending' /\ mv_last_signal_time' = NoTime)]_vars

C11_Witness ==
    /\ mv_log.result = "ok" /\ mv_pc = "idle"
    /\ ~mv_pending /\ mv_last_signal_time = NoTime

\* C12: after a burst of signals followed by no further signal, with the
\* refresh succeeding, exactly one REFRESH executes: none starts earlier than
\* debounce_seconds after the last signal, at most one executes, and once the
\* check of a second at or after that instant has run, one has started.
C12_OneRefreshAfterBurst ==
    /\ (mv_pc = "refreshing" /\ ~mv_log.unserved)
          => now >= mv_log.last + debounce_seconds
    /\ mv_log.starts <= 1
    /\ ~(/\ mv_log.unserved
         /\ mv_pc = "idle" /\ mv_ticked
         /\ now >= mv_log.last + debounce_seconds)

\* C13: when the REFRESH fails, check_and_refresh_if_needed returns normally,
\* pending stays true and last_signal_time is unchanged, and (no signal having
\* restarted the debounce period meanwhile) the next check attempts the
\* refresh again.
C13_FailureKeepsState ==
    [][/\ (mv_pc = "refreshing" /\ mv_pc' = "idle" /\ mv_log'.result = "failed") =>
              /\ mv_pending /\ mv_pending'
              /\ mv_last_signal_time' = mv_last_signal_time
       /\ (MvCheckStep /\ mv_log.result = "failed" /\ ~mv_log.unserved) =>
              mv_pc' = "refreshing"]_vars

C13_Witness ==
    /\ mv_log.result = "failed" /\ mv_pc = "refreshing"
    /\ mv_pending /\ ~mv_log.unserved

\* C14: no signal is lost: every signal is eventually followed by a REFRESH
\* that starts after it (stated for the signals early enough for the debounce
\* period to end inside the modelled period).
C14_NoSignalLost ==
    \A t \in 0..(MaxMvTime - debounce_seconds - 1) :
        (mv_log.unserved /\ mv_log.last = t) ~> ~(mv_log.unserved /\ mv_log.last = t)

\* C15: within one update(), register_contracts has finished before the
\* section's contracts are read and before any sync_contract or
\* update_contract starts: tasks exist only after the read, the registry run
\* is neither awaiting the venue nor inside its unit of work by then, and the
\* tasks see the contract table as the run left it.
C15_RegisterBeforeProcessing ==
    /\ tasks # <<>> => upc = "gather"
    /\ upc \in {"read", "gather"} => UpdateTask \notin (uow \cup inflight)
    /\ (upc = "gather" /\ reg.api_contracts # {}) =>
          LET fresh == {<<c.asset_name, c.quote>> : c \in reg.api_contracts}
          IN /\ \A a \in reg.api_contracts : \E id \in DOMAIN tasks :
                    /\ tasks[id].c.asset_name = a.asset_name
                    /\ tasks[id].c.quote_name = a.quote
                    /\ tasks[id].c.funding_interval = a.funding_interval
             /\ \A id \in DOMAIN tasks :
                    tasks[id].c.deprecated <=>
                        <<tasks[id].c.asset_name, tasks[id].c.quote_name>> \notin fresh

C15_Witness ==
    /\ upc = "gather" /\ reg.api_contracts # {}
    /\ \E id \in DOMAIN tasks : tasks[id].pc \notin {"wait", "done"}
    /\ \E id \in DOMAIN tasks : tasks[id].c.deprecated

\* C16: in an update() whose registry step succeeded every contract of the
\* section, deprecated ones included, is processed exactly once, by
\* sync_contract if its synced flag as read is false and by update_contract
\* otherwise; a failure of one contract leaves the others alone, and update()
\* completes.
C16_TasksCoverSection ==
    upc = "gather" =>
        /\ DOMAIN tasks = {c.id : c \in get_by_section(contracts, reg.section_name)}
        /\ \A id \in DOMAIN tasks :
              /\ tasks[id].c.id = id
              /\ tasks[id].pc = "wait" => tasks[id].c \in contracts
              /\ tasks[id].op = IF tasks[id].c.synced THEN "update" ELSE "sync"
              /\ tasks[id].pc \in {"s_read", "s_await", "s_mark", "s_insert"}
                    => tasks[id].op = "sync"
              /\ tasks[id].pc \in {"u_read", "u_await", "u_insert"}
                    => tasks[id].op = "update"
C16_OnceAndIsolated ==
    /\ (upc = "gather" /\ upc' = "gather") =>
          /\ DOMAIN tasks' = DOMAIN tasks
          /\ \A id \in DOMAIN tasks :
                tasks[id].pc = "done" => tasks'[id] = tasks[id]
          /\ \A id \in DOMAIN tasks :
                (tasks[id].outcome # "failed" /\ tasks'[id].outcome = "failed") =>
                    \A j \in DOMAIN tasks \ {id} : tasks'[j] = tasks[j]
    /\ (upc = "gather" /\ upc' # "gather") =>
          \A id \in DOMAIN tasks : tasks[id].pc = "done"
C16_EveryContractProcessedOnce ==
    /\ []C16_TasksCoverSection
    /\ [][C16_OnceAndIsolated]_vars
    /\ (upc = "gather") ~> (upc = "idle")

C16_Witness ==
    /\ upc = "gather"
    /\ \E id \in DOMAIN tasks : tasks[id].outcome = "failed"
    /\ \E id \in DOMAIN tasks : tasks[id].outcome = "ok" /\ tasks[id].c.deprecated

\* C17: at most concurrency_limit contracts are inside sync_contract or
\* update_contract, and every exit path gives the permit back: the free
\* permits are the capacity minus the contracts inside, and the capacity
\* again when update() has ended.
InsideSemaphore == {id \in DOMAIN tasks : tasks[id].pc \notin {"wait", "done"}}
C17_SemaphoreBoundsTasks ==
    /\ Cardinality(InsideSemaphore) <= concurrency_limit
    /\ semaphore = concurrency_limit - Cardinality(InsideSemaphore)
    /\ upc = "idle" => semaphore = concurrency_limit

C17_Witness ==
    /\ upc = "gather" /\ semaphore = 0
    /\ \E id \in DOMAIN tasks : tasks[id].pc = "wait"
    /\ \E id \in DOMAIN tasks : tasks[id].pc = "s_await"

\* C18: for one exchange at most 10 upstream requests are in flight at any
\* moment, counting the requests of update() (contract discovery, history
\* fetches) together with those of a concurrently running update_live().
\* Each awaiting adapter call counts as one request, each probe of the Aster
\* discovery as one.
UpstreamRequests == Cardinality(inflight) + Cardinality(ProbesInFlight)

C19_NothingReachesScheduler == escaped = {}

\* C20: every unit of work that was entered ends with its session closed, on
\* every exit path: it commits when the body ended without an exception and
\* rolls back otherwise, the close is started whatever the commit or rollback
\* did, the scope is left before the close has finished only by a
\* cancellation during teardown, and the session is closed in the end.
C20_ScopeState ==
    \A j \in Jobs :
        /\ scope[j].tx = "committed" => scope[j].exc = "none"
        /\ scope[j].tx = "rolled_back" => scope[j].exc # "none"
        /\ scope[j].pc \in {"close", "left"} => scope[j].session \in {"closing", "closed"}
        /\ (scope[j].pc = "left" /\ scope[j].session # "closed")
              => scope[j].result = "cancelled"
C20_SessionAlwaysClosed ==
    /\ []C20_ScopeState
    /\ \A j \in Jobs : (scope[j].pc = "exit") ~> (scope[j].session = "closed")

C20_Witness ==
    /\ scope[UpdateTask].pc = "left" /\ scope[UpdateTask].tx = "broken"
    /\ scope[UpdateTask].session = "closed"
    /\ scope[MvTask].pc = "left" /\ scope[MvTask].exc = "cancelled"
    /\ scope[MvTask].tx = "rolled_back" /\ scope[MvTask].session = "closed"

(***************************************************************************)
(* Startup                                                                 *)
(***************************************************************************)
\* C21: with total_instances T >= 2, instance i runs exactly the elements at
\* positions i, i+T, i+2T, ... of the sorted list; the slices of instances
\* 0..T-1 are pairwise disjoint and their union is the whole list.
C21_RoundRobinSlices ==
    (cfg.phase = "built" /\ cfg.config.total_instances >= 2) =>
        LET l == cfg.resolved
            T == cfg.config.total_instances
            i == cfg.config.instance_id
            r == cfg.config.exchanges.list
            slice(j) == Range(filter_exchanges_by_instance(l, j, T))
        IN /\ ~cfg.config.exchanges.is_none
           /\ \A p \in 1..Len(l) : (l[p] \in Range(r)) <=> ((p - 1) % T = i)
           /\ \A a, b \in 1..Len(r) : a < b => r[a] < r[b]
           /\ \A a, b \in 0..(T - 1) : a # b => slice(a) \cap slice(b) = {}
           /\ UNION {slice(a) : a \in 0..(T - 1)} = Range(l)

C21_Witness ==
    /\ cfg.phase = "built" /\ cfg.config.total_instances = 2
    /\ cfg.config.instance_id = 1
    /\ Len(cfg.resolved) >= 4
    /\ Len(cfg.config.exchanges.list) = Len(cfg.resolved) \div 2

\* C22: build_runtime_config raises, and returns no configuration, exactly
\* when total_instances <= 0, instance_id < 0 or instance_id >=
\* total_instances, whether the values come from the command line or from
\* the environment.
C22_InvalidInstanceRejected ==
    cfg.phase \in {"built", "raised"} =>
        LET i == IF cfg.args.instance_id = NoneInt THEN cfg.settings.instance_id
                 ELSE cfg.args.instance_id
            T == IF cfg.args.total_instances = NoneInt THEN cfg.settings.total_instances
                 ELSE cfg.args.total_instances
        IN /\ cfg.phase = "raised" <=> (T <= 0 \/ i < 0 \/ i >= T)
           /\ cfg.phase = "raised" => (cfg.config = NoConfig /\ boot = NoBoot)

C22_Witness ==
    /\ cfg.phase = "raised"
    /\ cfg.args.total_instances = NoneInt /\ cfg.settings.total_instances = 2
    /\ cfg.args.instance_id = 2

\* C23: when the exchanges resolved for this instance are empty after
\* filtering (the requested list matches no registered exchange, or the
\* round-robin slice is empty), startup fails before any job is registered
\* or started.
RequestedMatchesNone ==
    LET spec == IF ~cfg.args.exchanges.is_none THEN cfg.args.exchanges
                ELSE cfg.settings.exchanges
        requested == Range(spec.items) \ {Blank}
    IN requested # {} /\ requested \cap all_exchanges = {}
EmptySlice == cfg.phase = "built" /\ cfg.config.exchanges = SomeList(<<>>)

C23_EmptySelectionFailsStartup ==
    (RequestedMatchesNone \/ EmptySlice) =>
        (boot.jobs = <<>> /\ boot.pc \notin {"built", "started"})

\* C24: with N >= 1 exchanges, the update_live job of the exchange with
\* ordinal i fires at second i * floor(60 / N) of every minute; that second
\* lies in 0..59 and, for N <= 60, the seconds of distinct exchanges differ
\* (5 exchanges give 0, 12, 24, 36, 48).
LiveJobs == {k \in 1..Len(boot.jobs) : boot.jobs[k].kind = "live"}
Ordinal(k) == Cardinality({j \in LiveJobs : j < k})

C24_LiveSecondsStaggered ==
    LET N == Len(boot.exchanges)
    IN /\ \A k \in LiveJobs :
            /\ boot.jobs[k].exchange = boot.exchanges[Ordinal(k) + 1]
            /\ boot.jobs[k].second = Ordinal(k) * (60 \div N)
            /\ boot.jobs[k].second \in 0..59
       /\ N <= 60 =>
            \A j, k \in LiveJobs : j # k => boot.jobs[j].second # boot.jobs[k].second
       /\ (N = 5 /\ boot.pc = "started") =>
            {boot.jobs[k].second : k \in LiveJobs} = {0, 12, 24, 36, 48}

C24_Witness ==
    /\ boot.pc = "started" /\ Len(boot.exchanges) = 7
    /\ {boot.jobs[k].second : k \in LiveJobs} = {0, 8, 16, 24, 32, 40, 48}

(***************************************************************************)
(* http_client                                                             *)
(***************************************************************************)
\* C25: a get/post call retries only after a transport error or a non-2xx
\* status; the waits between attempts are 1, 2, 4, 8, 10, 10, ... seconds; no
\* new attempt is started once 60 seconds have elapsed since the first
\* attempt began, and the call then raises the last error; a successful
\* attempt returns its parsed JSON at once.  The call always terminates.
C25_RetryState ==
    /\ http.pc = "wait" => http.error \in HTTPError
    /\ http.pc = "attempt" => Len(http.waits) = http.attempt_number - 1
    /\ \A k \in 1..Len(http.waits) :
          http.waits[k] = IF k <= 4 THEN Pow2(k - 1) ELSE 10
    /\ (http.pc = "attempt" /\ http.attempt_number > 1) =>
          http.began - http.start < 60
    /\ http.pc = "raised" => (http.error # "" /\ http.result = "")
    /\ http.pc = "returned" => http.result = "json"

C25_RetryBoundedAndTerminates ==
    /\ []C25_RetryState
    /\ (http.pc = "attempt") ~> (http.pc \in {"returned", "raised"})

(***************************************************************************)
(* Adapters: history calls                                                 *)
(***************************************************************************)
\* C26: every point returned by fetch_history_before(contract, t) has
\* timestamp <= t and every point returned by fetch_history_after(contract,
\* t) has timestamp >= t, whatever records the venue returns to the request
\* the adapter sends.
C26_PointsOnRequestedSide ==
    (hcall.pc = "returned" /\ hcall.cutoff # NoTime) =>
        \A timestamp \in hcall.points :
            /\ hcall.direction = "before" => timestamp <= hcall.cutoff
            /\ hcall.direction = "after" => timestamp >= hcall.cutoff

\* C27: every call of the default fetch_history_before and
\* fetch_history_after asks the venue for a window of at most FETCH_STEP
\* hours, whatever the distance between the cutoff and the current time.
C27_WindowAtMostFetchStep ==
    hcall.pc # "none" =>
        hcall.window.end - hcall.window.start
            <= FETCH_STEP(hcall.adapter) * SecondsPerHour

(***************************************************************************)
(* Adapters: live calls                                                    *)
(***************************************************************************)
\* C28: for every batch adapter and every list of input contracts, the key
\* set of the map returned by fetch_live equals {c in input :
\* format_symbol(c) is a key of the venue's all-markets response}, also when
\* two input contracts format to the same symbol.
C28_BatchResultKeys ==
    (lcall.pc = "returned" /\ lcall.adapter \in BatchAdapters) =>
        lcall.result = {c \in Range(lcall.contracts) :
                          format_symbol(lcall.adapter, c) \in lcall.response}

\* C29: in fetch_live_parallel at most 10 single-contract fetches are in
\* flight at once, and a failure of one contract's fetch (HTTP error or
\* parse error of its response) only removes that contract from the result:
\* every contract whose own fetch succeeded is in the returned map.
C29_ParallelDropsOnlyFailures ==
    lcall.adapter = "okx" =>
        /\ Cardinality(FetchesInFlight) <= 10
        /\ lcall.pc \in {"returned", "raised"} =>
              \A i \in DOMAIN lcall.fetches :
                  lcall.fetches[i] = "ok" <=> lcall.contracts[i] \in lcall.result

(***************************************************************************)
(* Live collection as scheduled                                            *)
(***************************************************************************)
\* C30: each update_live() invocation calls collect_live once, and
\* collect_live calls the adapter's fetch_live with the section's active
\* contracts and stores one LiveFundingPoint for exactly the contracts the
\* adapter returned a rate for (none for a deprecated contract); an empty
\* mapping writes nothing and raises nothing.
C30_LiveRunCollects ==
    live_run.invoked =>
        /\ live_run.collect_live_ran
        /\ live_run.logged = ""
        /\ live_run.active # {} => live_run.fetch_live_calls = 1
        /\ live_run.stored \subseteq live_run.active

(***************************************************************************)
(* What register_contracts leaves alone                                    *)
(***************************************************************************)
\* C40: register_contracts never changes the id or the synced flag of an
\* existing contract: after its commit every earlier row is there with the
\* same id, key and synced value (only funding_interval and deprecated may
\* differ), the funding points are untouched, and a row that is new has
\* synced = false.
RegisterCommits == upc = "r_uow" /\ upc' = "r_committed"
C40_RegisterKeepsIdAndSynced ==
    [][RegisterCommits =>
          /\ \A x \in contracts : \E y \in contracts' :
                 /\ y.id = x.id
                 /\ [y EXCEPT !.funding_interval = x.funding_interval,
                              !.deprecated = x.deprecated] = x
          /\ \A y \in contracts' :
                 (\A x \in contracts : x.id # y.id) => ~y.synced
          /\ hist' = hist]_vars
\* witness: a run is about to commit the relisting of a contract that was
\* synced and then deprecated
C40_Witness ==
    /\ upc = "r_uow"
    /\ \E x \in contracts : \E y \in reg.staged.contracts :
          x.id = y.id /\ x.synced /\ x.deprecated /\ ~y.deprecated

(***************************************************************************)
(* The backfill loop                                                       *)
(***************************************************************************)
\* C38: sync_contract terminates on a finite venue history when the adapter
\* returns only points at or before the cutoff: a non-empty batch strictly
\* lowers the oldest stored timestamp, the cutoff oldest - 1s strictly
\* decreases from one iteration to the next, and the call ends with the
\* contract synced.
C38_BatchLowersOldest ==
    \A id \in DOMAIN tasks \cap DOMAIN tasks' :
        (tasks[id].pc = "s_insert" /\ tasks'[id].pc = "s_read") =>
            LET before == get_oldest_for_contract(hist, id)
                after == get_oldest_for_contract(hist', id)
            IN /\ after # NoTime
               /\ before # NoTime => after < before
C38_CutoffDecreases ==
    \A id \in DOMAIN tasks \cap DOMAIN tasks' :
        (tasks[id].pc = "s_read" /\ tasks'[id].pc = "s_await") =>
            /\ tasks[id].cutoff # NoTime => tasks'[id].cutoff < tasks[id].cutoff
            /\ tasks[id].total > 0 => tasks'[id].cutoff # NoTime
C38_SyncTerminates ==
    /\ [][C38_BatchLowersOldest /\ C38_CutoffDecreases]_vars
    /\ \A id \in 1..Cardinality(Assets) :
           (id \in DOMAIN tasks /\ tasks[id].op = "sync") ~> (id \in SyncedIds)
\* witness: a backfill has ended after three non-empty batches
C38_Witness ==
    \E id \in DOMAIN tasks :
        /\ tasks[id].op = "sync" /\ tasks[id].pc = "done" /\ tasks[id].outcome = "ok"
        /\ tasks[id].total >= 3
        /\ Cardinality(StoredTimes(id)) >= 3
        /\ id \in SyncedIds

(***************************************************************************)
(* The backfill under the orchestrator's timeout                           *)
(***************************************************************************)
\* a step in which the timeout cancels the sync_contract call of task id
SyncCancelled(id) ==
    /\ id \in DOMAIN tasks /\ id \in DOMAIN tasks'
    /\ tasks[id].op = "sync"
    /\ tasks[id].pc # "done"
    /\ tasks'[id].pc = "done" /\ tasks'[id].outcome = "failed"
\* a sync_contract call was cancelled before it completed a batch
CancelledWithoutBatch ==
    \E id \in DOMAIN tasks :
        /\ tasks[id].op = "sync" /\ tasks[id].pc = "done"
        /\ tasks[id].outcome = "failed" /\ tasks[id].total = 0
\* the first cutoff of a sync_contract call is the oldest stored point - 1s
ResumesFromOldest ==
    \A id \in DOMAIN tasks :
        (tasks[id].op = "sync" /\ tasks[id].pc = "s_await" /\ tasks[id].total = 0) =>
            tasks[id].cutoff = IF StoredTimes(id) = {} THEN NoTime
                               ELSE get_oldest_for_contract(hist, id) - OneSecond
\* repeated update() calls that each complete a batch end with synced = true
EventuallySynced ==
    \A id \in 1..Cardinality(Assets) :
        (id \in DOMAIN tasks /\ tasks[id].op = "sync") ~>
            (CancelledWithoutBatch \/ id \in SyncedIds)

\* C37: when the timeout cancels sync_contract at any suspension point, the
\* batches committed before stay stored and synced stays false; the next
\* update() resumes from the oldest stored point; and repeated update()
\* calls that each complete a batch end with synced = true.
C37_CancelledSyncResumes ==
    /\ [][\A id \in DOMAIN tasks :
             SyncCancelled(id) =>
                 /\ hist \subseteq hist'
                 /\ id \notin SyncedIds']_vars
    /\ []ResumesFromOldest
    /\ EventuallySynced

\* C37 (amended): as C37, except that synced is true after a cancellation
\* that arrives once the empty batch has led to the commit of synced = true,
\* while the unit of work of that commit is closing.
C37_CancelledSyncResumesAmended ==
    /\ [][\A id \in DOMAIN tasks :
             SyncCancelled(id) =>
                 /\ hist \subseteq hist'
                 /\ id \in SyncedIds' =>
                        (tasks[id].pc = "s_mark" /\ tasks[id].points = <<>>)]_vars
    /\ []ResumesFromOldest
    /\ EventuallySynced
\* witness: a cancelled backfill has been resumed from its oldest stored
\* point and has stored an older batch
C37_Witness ==
    \E id \in DOMAIN tasks :
        /\ tasks[id].op = "sync" /\ tasks[id].pc = "s_read"
        /\ tasks[id].total > 0
        /\ tasks[id].cutoff # NoTime
        /\ Cardinality(StoredTimes(id)) > tasks[id].total
        /\ id \notin SyncedIds

(***************************************************************************)
(* Paradex: hourly aggregation and the live cache                          *)
(***************************************************************************)
\* C31: no point returned by Paradex fetch_history_before or
\* fetch_history_after, for raw records the venue returns inside the
\* requested window (bounds included), is labelled later than the current
\* time, so that every stored point lies before its insertion.
C31_NoPointInFuture ==
    pdx.kind \in {"before", "after"} =>
        \A j \in 1..Len(pdx.points) : pdx.points[j].timestamp <= pdx.now

\* C32: in Paradex fetch_history_after every hour between the cutoff and the
\* current hour is visited; the API is called for an hour exactly when the
\* cache held fewer than 50 samples for it, otherwise the point is the
\* cached average / 8 labelled with the hour's end; a visited hour's bucket
\* is gone from the cache, used or not.
C32_CacheOrApi ==
    pdx.kind = "after" =>
        /\ \A h \in pdx.visited :
               /\ h \in pdx.api_calls <=> Samples(pdx.cache0, h) < CacheThreshold
               /\ Samples(pdx.cache0, h) >= CacheThreshold =>
                      \E j \in 1..Len(pdx.points) :
                          pdx.points[j] =
                              [timestamp |-> h + SecondsPerHour,
                               rate |-> [num |-> pdx.cache0[h].total,
                                         den |-> 8 * pdx.cache0[h].n]]
               /\ h \notin DOMAIN pdx.cache
        /\ pdx.pc = "returned" =>
               pdx.visited = {h \in {t \in PdxInstants : t = FloorHour(t)} :
                                 /\ FloorHour(pdx.cutoff) <= h
                                 /\ h + SecondsPerHour <= FloorHour(pdx.now)}
\* witness: a call has returned after using one hour's cached samples and
\* fetching another hour, whose bucket of 49 samples it dropped
C32_Witness ==
    /\ pdx.kind = "after" /\ pdx.pc = "returned"
    /\ \E h \in pdx.visited : Samples(pdx.cache0, h) = CacheThreshold
    /\ \E h \in pdx.visited : Samples(pdx.cache0, h) = CacheThreshold - 1
    /\ pdx.api_calls # {}

RECURSIVE SumRates(_, _)
SumRates(l, idx) ==
    IF idx = {} THEN 0
    ELSE LET i == CHOOSE x \in idx : TRUE
         IN l[i].funding_rate + SumRates(l, idx \ {i})

\* C34: _aggregate_to_hourly returns exactly one point per wall-clock hour
\* that holds a record's created_at, labelled with the hour's start plus one
\* hour, its rate the mean of the hour's raw rates divided by 8, the points
\* in ascending order of label.
C34_OnePointPerHour ==
    (pdx.kind = "aggregate" /\ pdx.pc = "returned") =>
        LET l == pdx.records
            P == pdx.points
            hour_starts == {FloorHour(l[i].created_at) : i \in 1..Len(l)}
        IN /\ Len(P) = Cardinality(hour_starts)
           /\ \A h \in hour_starts :
                  LET idx == {i \in 1..Len(l) : FloorHour(l[i].created_at) = h}
                  IN \E j \in 1..Len(P) :
                        /\ P[j].timestamp = h + SecondsPerHour
                        /\ P[j].rate.num * 8 * Cardinality(idx) = SumRates(l, idx) * P[j].rate.den
                        /\ P[j].rate.den > 0
           /\ \A j, k \in 1..Len(P) : j < k => P[j].timestamp < P[k].timestamp
\* witness: two records of one hour with different rates gave one point
C34_Witness ==
    /\ pdx.kind = "aggregate" /\ pdx.pc = "returned"
    /\ Len(pdx.records) = 2 /\ Len(pdx.points) = 1
    /\ pdx.records[1].funding_rate # pdx.records[2].funding_rate
    /\ pdx.records[1].created_at # pdx.records[2].created_at

(***************************************************************************)
(* Lighter: the remembered market ids                                      *)
(***************************************************************************)
\* C35: whenever the Lighter adapter's format_symbol is applied to a
\* contract the orchestrator hands it, the market id of the contract's asset
\* is in the map remembered from contract discovery, deprecated contracts
\* still being synced included.
C35_MarketIdKnown ==
    adapter = "lighter" =>
        \A id \in DOMAIN tasks :
            (tasks[id].op = "sync" /\ tasks[id].pc = "s_read") =>
                tasks[id].c.asset_name \in DOMAIN lighter.asset_to_id

\* C36: for every name a the venue lists, with or without the xyz: prefix,
\* format_symbol of the contract get_contracts creates for a is "xyz:"
\* followed by the asset part of a, and two names with distinct asset parts
\* are never stored under the same asset name
C36_RemapRoundTrips ==
    xyz.pc = "formatted" =>
        /\ xyz.symbol_a = <<"xyz", AssetPart(xyz.a)>>
        /\ (AssetPart(xyz.a) # AssetPart(xyz.b) => xyz.stored_a # xyz.stored_b)

\* register_contracts raises: update() is back at rest from the venue call
\* or from the unit of work
RegisterRaises == upc \in {"r_call", "r_uow"} /\ upc' = "idle"

\* the writes staged in the unit of work are exactly what the database holds
StagedPersisted(s, q, a, c) ==
    /\ s = reg.staged.sections
    /\ q = reg.staged.quotes
    /\ a = reg.staged.assets
    /\ c = reg.staged.contracts

\* a completed run: every write went in with the one commit, and the
\* refresher is signalled once, by the step that follows the commit
RegisterCompletesSignalled ==
    /\ (RegisterCommits =>
            /\ reg.api_contracts # {}
            /\ StagedPersisted(sections', quotes', assets', contracts')
            /\ UNCHANGED mvVars)
    /\ ((upc = "r_committed" /\ upc' # "r_committed") =>
            /\ upc' = "read"
            /\ mv_pending' /\ mv_last_signal_time' = now
            /\ StagedPersisted(sections, quotes, assets, contracts)
            /\ UNCHANGED dbVars)
    /\ (mvVars' # mvVars => upc = "r_committed" /\ upc' = "read")

\* C39: if register_contracts raises at any step, none of its writes are
\* persisted and the refresher is not signalled; if it completes with a
\* non-empty list, all its writes are committed in one transaction and the
\* refresher is signalled exactly once, after that commit
C39_RegisterAllOrNothing ==
    [][/\ (RegisterRaises => UNCHANGED dbVars /\ UNCHANGED mvVars)
       /\ RegisterCompletesSignalled]_vars

\* C39 amended: a raise before uow.commit() returns persists nothing, a raise
\* in the exit of the unit of work after the commit leaves every write
\* persisted, and neither signals the refresher; a completed run is as claimed
C39_RegisterAllOrNothingAmended ==
    [][/\ (RegisterRaises =>
              /\ UNCHANGED mvVars
              /\ UNCHANGED <<hist, live>>
              /\ \/ UNCHANGED dbVars
                 \/ /\ upc = "r_uow"
                    /\ StagedPersisted(sections', quotes', assets', contracts'))
       /\ RegisterCompletesSignalled]_vars

\* C39 witness: a run that raised after its commit: contracts are registered
\* and the refresher was never signalled
C39_Witness ==
    /\ upc = "idle"
    /\ \E c \in contracts : ~c.deprecated
    /\ ~mv_pending
    /\ mv_last_signal_time = NoTime

\* the hour datetime.now() lies in
PdxCurrentHour == FloorHour(pdx.now)

\* the contract's cache holds a bucket for an hour before the current one
StaleBucket(h) ==
    /\ pdx.pc = "job"
    /\ h * SecondsPerHour \in DOMAIN pdx.cache
    /\ h * SecondsPerHour < PdxCurrentHour

====
